---- MODULE Spec2Model ----
(***************************************************************************)
(* Company ingestion pipeline of throxy-tha: the Company store access      *)
(* (findByDomain, findByName, upsertCompany, updateCompanyEnrichment) and  *)
(* UploadService.processCSV (parse, validate, clean, upsert, enrich).      *)
(***************************************************************************)
EXTENDS Integers, Sequences, FiniteSets, TLC

\* ------------------------------------------------------------------------
\* Bounds of the model
\* ------------------------------------------------------------------------
MaxCalls == 4          \* upsertCompany calls made one after the other
MaxRaceCalls == 3      \* upsertCompany calls made when calls may overlap
MaxCallers == 2        \* callers that may have an upsertCompany in flight
MaxLines == 3          \* lines of the CSV text given to processCSV
MaxRerunRows == 3      \* data lines of a CSV text that is processed twice
MaxCostRows == 2       \* data lines of a CSV text cleaned by a priced model

\* ------------------------------------------------------------------------
\* Values
\* ------------------------------------------------------------------------
NULL == "<null>"                      \* SQL NULL / JS null
Names == {"A", "B"}                   \* company names (varchar, not null)
Domains == {NULL, "", "d1", "d2"}     \* domain: varchar, nullable, may be blank
NoRow == 0                            \* "no row" result of a LIMIT 1 select
NoTime == 0                           \* a timestamp column that is null
Callers == 1 .. MaxCallers

\* JS truthiness of a string | null value: `if (company.domain)`
Truthy(s) == s # NULL /\ s # ""

VARIABLES
    companies,   \* the company table: a set of rows
    nextId,      \* next fresh primary key (crypto.randomUUID)
    upc,         \* per caller: position inside upsertCompany
    uarg,        \* per caller: the NewCompany argument
    uexisting,   \* per caller: the local `existing` (row id or NoRow)
    ures,        \* per caller: what the last call returned
    calls,       \* number of upsertCompany calls started so far
    maxInFlight, \* how many upsertCompany calls the callers keep in flight
    overlapped,  \* history: some call started while another was in flight
    sawDomain,   \* history: some call carried a record with a domain
    lastWrite,   \* history: call number of the write applied last
    lastDone,    \* history: the call that completed last
    uhist,       \* per caller: history of the call in flight
    csvData,          \* processCSV: the csvData argument
    enableEnrichment, \* UploadService: was enrichmentService constructed
    aiModel,          \* AIModelConfig.model of the injected AI model
    cleanCall,        \* a cleanData call made on its own: position, argument,
                      \* the AI model's answer, the result
    batch,            \* a cleanBatchData call: position, requests, the
                      \* provider's results, the value returned
    enrichCall,       \* an enrichCompany call: position, what the news
                      \* search and the AI model answered, the outcome
    now,              \* the clock `new Date()` and CURRENT_TIMESTAMP read
    listCall,         \* a request to the listing endpoint: position, query,
                      \* parsed filters, the two query results, the response
    csvJob,           \* a job of the csv-processing worker: position, job
                      \* data, the enrichment jobs enqueued, the outcome
    enrichJob,        \* a job of the enrichment worker: position, job data,
                      \* the company looked up, the outcome
    updateCall,       \* the last direct updateCompanyEnrichment call: its
                      \* number, its companyId, how it ended
    phase,            \* processCSV: where the run stands
    thrown,           \* processCSV: the error it threw
    result,           \* processCSV: the UploadResult being built
    validatedRows,    \* processCSV: rows that passed validation
    cleanTask,        \* processCSV: one cleaning promise per validated row
    cleanedCompanies, \* processCSV: the successful cleaning responses
    upsertIdx,        \* processCSV: loop index of the upsert loop
    savedCompanies,   \* processCSV: companies returned by upsertCompany
    enrichTask,       \* processCSV: one enrichment promise per saved company
    aiMemo,           \* the AI model's answer per row, once given
    runs,             \* processCSV runs started on this csvData
    hist              \* history of the run (counts used by the properties)

storeVars == <<companies, nextId>>
auxVars == <<listCall, csvJob, enrichJob>>
callVars == <<upc, uarg, uexisting, ures, calls, maxInFlight, overlapped,
             sawDomain, lastWrite, lastDone, uhist>>
pipeVars == <<csvData, enableEnrichment, aiModel, cleanCall, batch, enrichCall, now, updateCall, auxVars, phase, thrown, result, validatedRows,
             cleanTask, cleanedCompanies, upsertIdx, savedCompanies,
             enrichTask, aiMemo, runs, hist>>
vars == <<companies, nextId, upc, uarg, uexisting, ures, calls, maxInFlight,
          overlapped, sawDomain, lastWrite, lastDone, uhist, csvData,
          enableEnrichment, aiModel, cleanCall, batch, enrichCall, now, updateCall, auxVars, phase, thrown, result, validatedRows, cleanTask,
          cleanedCompanies, upsertIdx, savedCompanies, enrichTask, aiMemo,
          runs, hist>>

\* ------------------------------------------------------------------------
\* CSV text.  A text is a sequence of characters; a run of ordinary
\* characters is written as one word ("Acme", "acme.com"), the characters
\* the parser looks at (line feed, comma, double quote, blank) stand alone.
\* ------------------------------------------------------------------------
LF == "<lf>"
Comma == ","
Quote == "<quote>"
Blank == " "
Tab == "<tab>"
WhiteSpace == {Blank, Tab}
UNDEF == <<"<undefined>">>            \* JS undefined (absent object key)

\* String.prototype.split(sep): the pieces between separators, at least one
RECURSIVE Split(_, _)
Split(s, sep) ==
    IF \E i \in 1 .. Len(s) : s[i] = sep
    THEN LET i == CHOOSE k \in 1 .. Len(s) :
                      s[k] = sep /\ \A j \in 1 .. k - 1 : s[j] # sep
         IN  <<SubSeq(s, 1, i - 1)>> \o Split(SubSeq(s, i + 1, Len(s)), sep)
    ELSE <<s>>

\* String.prototype.trim(): drop leading and trailing white space
RECURSIVE Trim(_)
Trim(s) ==
    IF s = <<>> THEN s
    ELSE IF Head(s) \in WhiteSpace THEN Trim(Tail(s))
    ELSE IF s[Len(s)] \in WhiteSpace THEN Trim(SubSeq(s, 1, Len(s) - 1))
    ELSE s

IsBlankLine(line) == Len(Trim(line)) = 0

\* CSVParser.preprocessLines with skipEmptyLines = true (the default; no
\* caller of UploadService passes csvOptions)
PreprocessLines(csv) ==
    LET NotBlank(line) == ~IsBlankLine(line)
    IN  SelectSeq(Split(csv, LF), NotBlank)

\* CSVParser.validateBasicStructure: the error it throws, or "" for none
ValidateBasicStructure_OnlyEmpty(lines) ==
    IF Len(lines) < 1 THEN "CSV is empty" ELSE ""

ValidateBasicStructure(lines) ==
    IF Len(lines) < 1 THEN "CSV is empty"
    ELSE IF Len(lines) < 2
         THEN "CSV must have at least a header and one data row"
         ELSE ""

\* field.replace(/^"|"$/g, ""): strip one leading and one trailing quote
StripQuotes(f) ==
    LET a == IF f # <<>> /\ Head(f) = Quote THEN Tail(f) ELSE f
    IN  IF a # <<>> /\ a[Len(a)] = Quote THEN SubSeq(a, 1, Len(a) - 1) ELSE a

\* the loop of CSVParser.parseCSVLine from character i on
RECURSIVE ParseFrom(_, _, _, _, _)
ParseFrom(line, i, fields, current, inQuotes) ==
    IF i > Len(line) THEN Append(fields, current)
    ELSE IF line[i] = Quote
         THEN ParseFrom(line, i + 1, fields, current, ~inQuotes)
    ELSE IF line[i] = Comma /\ ~inQuotes
         THEN ParseFrom(line, i + 1, Append(fields, current), <<>>, inQuotes)
    ELSE ParseFrom(line, i + 1, fields, Append(current, line[i]), inQuotes)

\* CSVParser.parseCSVLine
ParseCSVLine(line) ==
    LET r == ParseFrom(line, 1, <<>>, <<>>, FALSE)
    IN  [k \in DOMAIN r |-> StripQuotes(r[k])]

\* String.prototype.toLowerCase on one character or word
LowerCase(w) ==
    CASE w = "Name" -> "name"
      [] w = "Domain" -> "domain"
      [] w = "Company" -> "company"
      [] w = "URL" -> "url"
      [] OTHER -> w

\* CSVParser.normalizeHeader
NormalizeHeader(header) ==
    LET normalized == Trim([k \in DOMAIN header |-> LowerCase(header[k])])
    IN  CASE normalized = <<"company_name">> -> <<"name">>
          [] normalized = <<"domain">> -> <<"domain">>
          [] normalized = <<"employee_size">> -> <<"employee_size">>
          [] OTHER -> normalized

\* CSVParser.parseHeaders
ParseHeaders(headerLine) ==
    LET raw == ParseCSVLine(headerLine)
    IN  [k \in DOMAIN raw |-> NormalizeHeader(raw[k])]

\* CSVParser.parseDataRows: parseCSVLine never throws, so every line that
\* is not blank yields a row and no warning
ParseDataRows_DropsShortRows(dataLines) ==
    LET Full(line) == ~IsBlankLine(line) /\ Len(ParseCSVLine(line)) >= 2
        kept == SelectSeq(dataLines, Full)
    IN  [k \in DOMAIN kept |-> ParseCSVLine(kept[k])]

ParseDataRows(dataLines) ==
    LET NotBlank(line) == ~IsBlankLine(line)
        kept == SelectSeq(dataLines, NotBlank)
    IN  [k \in DOMAIN kept |-> ParseCSVLine(kept[k])]

\* obj[header] after the headers.forEach of transformToObjects: the value
\* of the last column carrying that header, trimmed (trimFields = true),
\* "" when the row is too short, undefined when no column has the header
FieldOf(row, headers, h) ==
    LET cols == {k \in DOMAIN headers : headers[k] = h}
    IN  IF cols = {} THEN UNDEF
        ELSE LET k == CHOOSE c \in cols : \A d \in cols : d <= c
             IN  IF k \in DOMAIN row THEN Trim(row[k]) ELSE <<>>

\* CSVParser.transformToObjects: the objects (ref is the object's identity,
\* its position in data) and the column-count warnings
TransformToObjects(rows, headers) ==
    [data |-> [i \in DOMAIN rows |->
                  [ref |-> i,
                   name |-> FieldOf(rows[i], headers, <<"name">>),
                   domain |-> FieldOf(rows[i], headers, <<"domain">>)]],
     warnings |-> LET Ragged(i) == Len(rows[i]) # Len(headers)
                      idx == SelectSeq([i \in DOMAIN rows |-> i], Ragged)
                  IN  [k \in DOMAIN idx |->
                          [row |-> idx[k] + 1, msg |-> "Expected columns"]]]

\* CSVParser.parse: the thrown error (or ""), the data and the warnings
Parse(csv) ==
    LET lines == PreprocessLines(csv)
        err == ValidateBasicStructure(lines)
    IN  IF err # "" THEN [error |-> err, data |-> <<>>, warnings |-> <<>>]
        ELSE LET t == TransformToObjects(ParseDataRows(Tail(lines)),
                                         ParseHeaders(Head(lines)))
             IN  [error |-> "", data |-> t.data, warnings |-> t.warnings]

\* ------------------------------------------------------------------------
\* Store queries (src/server/db/company/queries.ts)
\* ------------------------------------------------------------------------
NoArg == [name |-> NULL, domain |-> NULL, payload |-> 0]
NoRes == [returned |-> FALSE, threw |-> FALSE, wasUpdated |-> FALSE,
          company |-> NoRow, rows |-> 0]
NoHist == [alone |-> FALSE, rowsAtCall |-> 0, prev |-> [arg |-> NoArg, ok |-> FALSE]]

\* select ... where domain = d limit 1: any matching row, or null
FindByDomainResults_NeverMatches(store, d) == {NoRow}

FindByDomainResults(store, d) ==
    LET m == {r \in store : r.domain = d}
    IN  IF m = {} THEN {NoRow} ELSE {r.id : r \in m}

\* select ... where name = n limit 1: any matching row, or null
FindByNameResults_NeverMatches(store, n) == {NoRow}

FindByNameResults(store, n) ==
    LET m == {r \in store : r.name = n}
    IN  IF m = {} THEN {NoRow} ELSE {r.id : r \in m}

\* ------------------------------------------------------------------------
\* Store mutations (src/server/db/company/mutations.ts)
\* ------------------------------------------------------------------------
\* insert into company values (...) returning *
CreateCompany(store, id, rec) ==
    store \cup {[id |-> id, name |-> rec.name, domain |-> rec.domain,
                 payload |-> rec.payload, enrichment_data |-> NULL,
                 created_at |-> now, updated_at |-> now, enriched_at |-> NoTime]}

\* update company set {...company} where id = existing.id
UpdateCompany_KeepsOldFields(store, id, rec) == store

UpdateCompany(store, id, rec) ==
    {IF r.id = id
        THEN [r EXCEPT !.name = rec.name, !.domain = rec.domain,
                       !.payload = rec.payload, !.updated_at = now]
        ELSE r : r \in store}

InFlight == {c \in Callers : upc[c] # "idle"}

\* ------------------------------------------------------------------------
\* upsertCompany, one step per store operation (each `await` is a point
\* where other callers run)
\* ------------------------------------------------------------------------
\* `if (!existing && company.name)`: is the lookup by name made?
NameLookupNeeded_Never(existing, rec) == FALSE

NameLookupNeeded(existing, rec) == existing = NoRow /\ Truthy(rec.name)

\* position after the domain lookup has (or has not) been made
AfterDomainLookup(existing, rec) ==
    IF NameLookupNeeded(existing, rec) THEN "findByName" ELSE "write"

\* upsertCompany(company) is entered; runs up to its first store operation
UpsertEnter(c, rec) ==
    /\ upc[c] = "idle"
    /\ upc' = [upc EXCEPT ![c] = IF Truthy(rec.domain) THEN "findByDomain"
                                 ELSE AfterDomainLookup(NoRow, rec)]
    /\ uarg' = [uarg EXCEPT ![c] = rec]
    /\ uexisting' = [uexisting EXCEPT ![c] = NoRow]
    /\ ures' = [ures EXCEPT ![c] = NoRes]
    /\ overlapped' = (overlapped \/ InFlight # {})
    /\ sawDomain' = (sawDomain \/ Truthy(rec.domain))
    /\ uhist' = [d \in Callers |->
                    IF d = c
                    THEN [alone |-> InFlight = {},
                          rowsAtCall |-> Cardinality(companies),
                          prev |-> lastDone]
                    ELSE IF d \in InFlight
                         THEN [uhist[d] EXCEPT !.alone = FALSE]
                         ELSE uhist[d]]
    /\ UNCHANGED <<companies, nextId, maxInFlight, lastWrite, lastDone>>

\* existing = await findByDomain(company.domain)
FindByDomain(c) ==
    /\ upc[c] = "findByDomain"
    /\ \E e \in FindByDomainResults(companies, uarg[c].domain) :
          /\ uexisting' = [uexisting EXCEPT ![c] = e]
          /\ upc' = [upc EXCEPT ![c] = AfterDomainLookup(e, uarg[c])]
    /\ UNCHANGED <<companies, nextId, uarg, ures, calls, maxInFlight,
                   overlapped, sawDomain, lastWrite, lastDone, uhist>>
    /\ UNCHANGED pipeVars

\* existing = await findByName(company.name)
FindByName(c) ==
    /\ upc[c] = "findByName"
    /\ \E e \in FindByNameResults(companies, uarg[c].name) :
          uexisting' = [uexisting EXCEPT ![c] = e]
    /\ upc' = [upc EXCEPT ![c] = "write"]
    /\ UNCHANGED <<companies, nextId, uarg, ures, calls, maxInFlight,
                   overlapped, sawDomain, lastWrite, lastDone, uhist>>
    /\ UNCHANGED pipeVars

\* the row an update ... where id = existing.id returning * gives back
Returning(store, id) == IF \E r \in store : r.id = id THEN id ELSE NoRow

\* if (existing) update ... else createCompany(company); then return
Write(c) ==
    /\ upc[c] = "write"
    /\ IF uexisting[c] # NoRow
       THEN /\ companies' = UpdateCompany(companies, uexisting[c], uarg[c])
            /\ nextId' = nextId
            /\ ures' = [ures EXCEPT ![c] =
                  [returned |-> TRUE, threw |-> FALSE, wasUpdated |-> TRUE,
                   company |-> Returning(companies, uexisting[c]),
                   rows |-> Cardinality(companies')]]
       ELSE /\ companies' = CreateCompany(companies, nextId, uarg[c])
            /\ nextId' = nextId + 1
            /\ ures' = [ures EXCEPT ![c] =
                  [returned |-> TRUE, threw |-> FALSE, wasUpdated |-> FALSE,
                   company |-> nextId, rows |-> Cardinality(companies')]]
    /\ upc' = [upc EXCEPT ![c] = "idle"]
    /\ lastWrite' = uarg[c].payload
    /\ lastDone' = [arg |-> uarg[c], ok |-> uhist[c].alone]
    /\ UNCHANGED <<uarg, uexisting, calls, maxInFlight, overlapped, sawDomain,
                   uhist>>
    /\ UNCHANGED pipeVars

\* the store operation the call is waiting on rejects (database error):
\* upsertCompany has no try/catch, the rejection reaches its caller
StoreThrows(c) ==
    /\ upc[c] \in {"findByDomain", "findByName", "write"}
    /\ upc' = [upc EXCEPT ![c] = "idle"]
    /\ ures' = [ures EXCEPT ![c] = [NoRes EXCEPT !.threw = TRUE]]
    /\ lastDone' = [arg |-> uarg[c], ok |-> FALSE]
    /\ UNCHANGED <<companies, nextId, uarg, uexisting, calls, maxInFlight,
                   overlapped, sawDomain, lastWrite, uhist>>
    /\ UNCHANGED pipeVars

\* ------------------------------------------------------------------------
\* Specification of the store under direct callers of upsertCompany
\* ------------------------------------------------------------------------
\* a caller passes a NewCompany record; payload stands for the remaining
\* columns (country, employee_size, raw_json) and identifies the call
CallLimit == IF maxInFlight = 1 THEN MaxCalls ELSE MaxRaceCalls

UpsertCall(c) ==
    /\ calls < CallLimit
    /\ Cardinality(InFlight) < maxInFlight
    /\ \A d \in Callers : d < c => d \in InFlight
    /\ \E n \in Names, d \in Domains :
          UpsertEnter(c, [name |-> n, domain |-> d, payload |-> calls + 1])
    /\ calls' = calls + 1
    /\ UNCHANGED pipeVars

\* no processCSV run: the state of the pipeline before processCSV is called
\* what a cleaning promise holds: not settled yet, null, or the cleaned data
NullResult == [st |-> "null", name |-> "", domain |-> NULL, payload |-> 0,
               employee_size |-> NULL]
PendingResult == [st |-> "pending", name |-> "", domain |-> NULL, payload |-> 0,
                  employee_size |-> NULL]

\* AIModelConfig.model: a model of the pricing table, and one that is not
\* in it
AIModels == {"gpt-4o-mini", "unlisted"}

\* no cleanData call of its own has been made
NoCleanCall == [pc |-> "idle", raw |-> [ref |-> 0, name |-> UNDEF, domain |-> UNDEF],
                aiCalls |-> 0, result |-> PendingResult]

\* no direct updateCompanyEnrichment call has been made
NoUpdateCall == [n |-> 0, id |-> 0, threw |-> FALSE, msg |-> ""]

\* no request to the listing endpoint has been made
NoListCall ==
    [pc |-> "idle",
     query |-> [country |-> [given |-> FALSE, text |-> <<>>],
                employee_size |-> "<missing>",
                domain |-> [given |-> FALSE, text |-> <<>>],
                limit |-> "<missing>", offset |-> "<missing>"],
     filters |-> [country |-> [given |-> FALSE, text |-> <<>>],
                  employee_size |-> "<missing>",
                  domain |-> [given |-> FALSE, text |-> <<>>],
                  limit |-> 0, offset |-> 0],
     selectDone |-> FALSE, countDone |-> FALSE, failed |-> FALSE,
     companies |-> <<>>, total |-> 0,
     response |-> [status |-> 0, companies |-> <<>>, total |-> 0, page |-> 0,
                   pageSize |-> 0, totalPages |-> 0]]

\* the csv-processing worker has no job
NoCsvJob == [pc |-> "idle", enableEnrichment |-> FALSE, queued |-> <<>>,
             error |-> ""]

\* the enrichment worker has no job
NoEnrichJob == [pc |-> "idle", companyId |-> 0, companyName |-> "",
                company |-> 0, error |-> ""]

\* nothing but the operations of the specification at hand is going on
AuxIdle ==
    /\ listCall = NoListCall
    /\ csvJob = NoCsvJob
    /\ enrichJob = NoEnrichJob

\* no cleanBatchData call has been made
NoBatch == [pc |-> "idle", raw |-> <<>>, i |-> 0, call |-> <<>>,
            results |-> <<>>, peak |-> 0,
            out |-> [success |-> FALSE, data |-> <<>>, tokensUsed |-> 0,
                     cost |-> 0, error |-> "<missing>"]]

\* no enrichCompany call has been made
NoEnrichCall ==
    [pc |-> "idle",
     news |-> [kind |-> "none", articles |-> 0],
     answer |-> [threw |-> FALSE, success |-> FALSE, data |-> "undefined",
                 signals |-> [recent_news |-> [array |-> FALSE, items |-> <<>>],
                              hiring_signals |-> [array |-> FALSE, items |-> <<>>],
                              funding_events |-> [array |-> FALSE, items |-> <<>>],
                              technology_adoption |-> [array |-> FALSE, items |-> <<>>],
                              trigger_events |-> [array |-> FALSE, items |-> <<>>],
                              growth_indicators |-> [array |-> FALSE, items |-> <<>>],
                              leadership_changes |-> [array |-> FALSE, items |-> <<>>]]],
     result |-> [signals |-> [recent_news |-> <<>>, hiring_signals |-> <<>>,
                              funding_events |-> <<>>, technology_adoption |-> <<>>,
                              trigger_events |-> <<>>, growth_indicators |-> <<>>,
                              leadership_changes |-> <<>>],
                 sources |-> <<>>, enriched_at |-> "<null>", confidence_score |-> 0]]

NoResult == [processed |-> 0, inserted |-> 0, updated |-> 0, errors |-> 0,
             errorDetails |-> <<>>, totalCost |-> 0, enriched |-> 0,
             enrichmentErrors |-> 0, enrichmentSkipped |-> 0]
NoThrow == [prefix |-> "", msg |-> ""]
\* no AI answer to a cleaning request has been seen (i is the promise the
\* last answer went to)
NoAnswer == [i |-> 0,
             response |-> [threw |-> FALSE, success |-> FALSE, data |-> "undefined",
                           name |-> "<missing>", domain |-> "<missing>",
                           country |-> "<missing>", employee_size |-> "<missing>"]]

NoRunHist == [errAfterValidation |-> 0, errAfterCleaning |-> 0,
              upsertCalls |-> 0, updateCalls |-> 0, store0 |-> {},
              cleanedOutOfOrder |-> FALSE, enrichedOutOfOrder |-> FALSE,
              rowsAfterFirstRun |-> 0,
              upsertThrew |-> {}, savedFrom |-> <<>>, aiCost |-> 0,
              parsedRows |-> <<>>, parserWarnings |-> <<>>,
              headers |-> <<>>, upserts |-> <<>>,
              lastAnswer |-> NoAnswer]

PipeIdle ==
    /\ phase = "idle"
    /\ thrown = NoThrow
    /\ result = NoResult
    /\ validatedRows = <<>>
    /\ cleanTask = <<>>
    /\ cleanedCompanies = <<>>
    /\ upsertIdx = 0
    /\ savedCompanies = <<>>
    /\ enrichTask = <<>>
    /\ aiMemo = <<>>
    /\ runs = 0
    /\ hist = NoRunHist
    /\ cleanCall = NoCleanCall
    /\ batch = NoBatch
    /\ enrichCall = NoEnrichCall
    /\ now = 1
    /\ updateCall = NoUpdateCall
    /\ AuxIdle

StoreInit ==
    /\ companies = {}
    /\ nextId = 1
    /\ upc = [c \in Callers |-> "idle"]
    /\ uarg = [c \in Callers |-> NoArg]
    /\ uexisting = [c \in Callers |-> NoRow]
    /\ ures = [c \in Callers |-> NoRes]
    /\ calls = 0
    /\ maxInFlight \in 1 .. MaxCallers
    /\ overlapped = FALSE
    /\ sawDomain = FALSE
    /\ lastWrite = 0
    /\ lastDone = [arg |-> NoArg, ok |-> FALSE]
    /\ uhist = [c \in Callers |-> NoHist]
    /\ csvData = <<>>
    /\ enableEnrichment = FALSE
    /\ aiModel = "unlisted"
    /\ PipeIdle

StoreNext ==
    \E c \in Callers :
        \/ UpsertCall(c)
        \/ FindByDomain(c)
        \/ FindByName(c)
        \/ Write(c)
        \/ StoreThrows(c)

SpecStore == StoreInit /\ [][StoreNext]_vars

\* ------------------------------------------------------------------------
\* CSVValidator (src/lib/csv/validator.ts)
\* ------------------------------------------------------------------------
\* words the hostname pattern /^[a-zA-Z0-9][a-zA-Z0-9-]*[a-zA-Z0-9]*\.[a-zA-Z]{2,}$/
\* accepts, and the scheme prefixes stripped before the test
DomainWords == {"acme.com", "beta.io"}
Schemes == {"http://", "https://"}

\* `!row.name`, `row.domain &&`: truthiness of string | undefined
TruthyField(v) == v # UNDEF /\ v # <<>>

\* RawCompanySchema.parse: name and domain are strings when present
SchemaOk(row) == \A f \in {row.name, row.domain} : f = UNDEF \/ f \in Seq(STRING)

\* CSVValidator.isValidDomain
IsValidDomain(domain) ==
    LET d == IF domain # <<>> /\ Head(domain) \in Schemes
             THEN Tail(domain) ELSE domain
    IN  Len(d) = 1 /\ d[1] \in DomainWords

\* CSVValidator.validate
Validate(data) ==
    LET Bad(i) == ~SchemaOk(data[i])
        bad == SelectSeq([i \in DOMAIN data |-> i], Bad)
    IN  [valid |-> SelectSeq(data, SchemaOk),
         invalid |-> [k \in DOMAIN bad |->
                        [rowIndex |-> bad[k] + 1, ref |-> data[bad[k]].ref,
                         error |-> "Invalid row"]]]

\* CSVValidator.validateBusinessRules, rows i .. Len(data)
RECURSIVE BusinessRuleErrorsFrom(_, _)
BusinessRuleErrorsFrom(data, i) ==
    IF i > Len(data) THEN <<>>
    ELSE LET row == data[i]
             e1 == IF ~TruthyField(row.name) /\ ~TruthyField(row.domain)
                   THEN <<[rowIndex |-> i + 1, ref |-> row.ref,
                           error |-> "Company must have either a name or domain"]>>
                   ELSE <<>>
             e2 == IF TruthyField(row.domain) /\ ~IsValidDomain(row.domain)
                   THEN <<[rowIndex |-> i + 1, ref |-> row.ref,
                           error |-> "Invalid domain format"]>>
                   ELSE <<>>
         IN  e1 \o e2 \o BusinessRuleErrorsFrom(data, i + 1)

ValidateBusinessRules_DomainRuleOnly(data) ==
    LET Bad(i) == TruthyField(data[i].domain) /\ ~IsValidDomain(data[i].domain)
        bad == SelectSeq([i \in DOMAIN data |-> i], Bad)
    IN  [k \in DOMAIN bad |->
            [rowIndex |-> bad[k] + 1, ref |-> data[bad[k]].ref,
             error |-> "Invalid domain format"]]

ValidateBusinessRules(data) == BusinessRuleErrorsFrom(data, 1)

\* ------------------------------------------------------------------------
\* CompanyDataAICleaner.cleanData (src/lib/ai/cleaning.ts)
\* ------------------------------------------------------------------------
CleanNames == {"A", "B"}
CleanDomains == {NULL, "d1", "d2"}

\* what the AI model may answer to one cleaning request: a reported
\* failure, a thrown error, or success with data (whose name may be empty)
\* values of a field of the object the AI model returns: the key is absent,
\* the value is not a string (a number, an array), null, or a string
MISSING == "<missing>"
NotAString == "<number>"
IsString(v) == v \notin {MISSING, NotAString, NULL}

\* EMPLOYEE_SIZE_BUCKETS (src/lib/types.ts)
EMPLOYEE_SIZE_BUCKETS ==
    {"1-10", "11-50", "51-200", "201-500", "501-1,000", "1,001-5,000",
     "5,001-10,000", "10,000+"}

\* response.data: undefined (or another falsy value), a value that is not
\* an object, or an object
DataKinds == {"undefined", "scalar", "object"}

Answer(t, s, k, n, d, c, e) ==
    [threw |-> t, success |-> s, data |-> k, name |-> n, domain |-> d,
     country |-> c, employee_size |-> e]

\* the AI model throws, or reports a failure
FailedAnswers ==
    {Answer(t, FALSE, "undefined", MISSING, MISSING, MISSING, MISSING) :
        t \in BOOLEAN}

\* what the AI model may answer to one cleaning request of a processCSV
\* run: a reported failure, a thrown error, or success with the data of a
\* company (whose name may be empty)
AIResponses ==
    FailedAnswers
    \cup {Answer(FALSE, TRUE, "undefined", MISSING, MISSING, MISSING, MISSING),
          Answer(FALSE, TRUE, "object", "A", NULL, NULL, "many")}
    \cup {Answer(FALSE, TRUE, "object", n, d, NULL, "1-10") :
            n \in CleanNames \cup {""}, d \in CleanDomains}

\* domain strings that still carry a scheme or a path
UncleanDomains == {"https://d1", "d1/about"}

\* whatever the AI model may answer to a cleaning request
AllAIResponses ==
    FailedAnswers
    \cup {Answer(FALSE, s, k, MISSING, MISSING, MISSING, MISSING) :
            s \in BOOLEAN, k \in {"undefined", "scalar"}}
    \cup {Answer(FALSE, s, "object", n, d, c, e) :
            s \in BOOLEAN,
            n \in {MISSING, NotAString, NULL, "", "A"},
            d \in {MISSING, NotAString, NULL, "", "d1"} \cup UncleanDomains,
            c \in {MISSING, NotAString, NULL, "US"},
            e \in EMPLOYEE_SIZE_BUCKETS \cup {MISSING, NULL, NotAString, "many", ""}}

\* `if (!raw.name?.trim()) return null`: is the AI model called at all
HasName_IfPresent(raw) == raw.name # UNDEF

HasName(raw) == raw.name # UNDEF /\ Trim(raw.name) # <<>>

\* CompanyDataAICleaner.isValidCleanedData
IsValidCleanedData_AnySize(data) ==
    /\ data.data = "object"
    /\ IsString(data.name) /\ data.name # ""
    /\ data.domain # MISSING /\ (data.domain = NULL \/ IsString(data.domain))
    /\ data.country # MISSING /\ (IsString(data.country) \/ data.country = NULL)
    /\ data.employee_size # MISSING

IsValidCleanedData(data) ==
    /\ data.data = "object"
    /\ data.name # MISSING /\ IsString(data.name) /\ data.name # ""
    /\ data.domain # MISSING /\ (data.domain = NULL \/ IsString(data.domain))
    /\ data.country # MISSING /\ (IsString(data.country) \/ data.country = NULL)
    /\ data.employee_size # MISSING
    /\ data.employee_size \in EMPLOYEE_SIZE_BUCKETS

CleanDataResult_TrustsShape(raw, response) ==
    IF response.threw \/ ~response.success \/ response.data = "undefined"
    THEN NullResult
    ELSE [st |-> "ok", name |-> response.name, domain |-> response.domain,
          payload |-> raw.ref, employee_size |-> response.employee_size]

\* what cleanData returns once the AI model has answered
CleanDataResult(raw, response) ==
    IF \/ response.threw
       \/ ~response.success
       \/ response.data = "undefined"
       \/ ~IsValidCleanedData(response)
    THEN NullResult
    ELSE [st |-> "ok", name |-> response.name, domain |-> response.domain,
          payload |-> raw.ref, employee_size |-> response.employee_size]

\* ------------------------------------------------------------------------
\* UploadService.processCSV (src/lib/upload/service.ts)
\* ------------------------------------------------------------------------
RunCaller == 1                 \* processCSV awaits one upsertCompany at a time
ThrowPrefix == "CSV processing failed: "

Detail(n, m) == [row |-> n, msg |-> m]

ErrorLines_PushesNothing(errs) == <<>>

\* errorDetails.push(`Row ${error.rowIndex}: ${error.error}`) for each error
ErrorLines(errs) == [k \in DOMAIN errs |-> Detail(errs[k].rowIndex, errs[k].error)]

PassedRows_KeepsAll(valid, errs) == valid

\* validationResult.valid.filter(row => !businessRuleErrors.some(error =>
\* error.data === row))
PassedRows(valid, errs) ==
    LET Passed(row) == ~\E k \in DOMAIN errs : errs[k].ref = row.ref
    IN  SelectSeq(valid, Passed)

\* lines 55-90: parse, validate, count; evaluated without suspension
FrontHalf(csv) ==
    LET parseResult == Parse(csv)
        validationResult == Validate(parseResult.data)
        businessRuleErrors == ValidateBusinessRules(validationResult.valid)
        rows == PassedRows(validationResult.valid, businessRuleErrors)
    IN  [error |-> IF parseResult.error # "" THEN parseResult.error
                   ELSE IF Len(rows) = 0
                        THEN "No valid data rows found after validation"
                        ELSE "",
         processed |-> Len(parseResult.data),
         errors |-> Len(validationResult.invalid) + Len(businessRuleErrors),
         errorDetails |-> parseResult.warnings
                          \o ErrorLines(validationResult.invalid)
                          \o ErrorLines(businessRuleErrors),
         validatedRows |-> rows]

\* lines 123-154: the loop over the settled cleaning promises
RECURSIVE CollectFrom(_, _)
CollectFrom(tasks, i) ==
    IF i > Len(tasks) THEN [cleaned |-> <<>>, errors |-> 0, details |-> <<>>]
    ELSE LET rest == CollectFrom(tasks, i + 1)
         IN  IF tasks[i].st = "ok"
             THEN [rest EXCEPT !.cleaned = <<tasks[i]>> \o @]
             ELSE [rest EXCEPT !.errors = @ + 1,
                               !.details = <<Detail(i, "AI cleaning failed")>> \o @]

CollectCleaning_KeepsNulls(tasks) ==
    [cleaned |-> tasks, errors |-> 0, details |-> <<>>]

CollectCleaning(tasks) == CollectFrom(tasks, 1)

Settled_WhenOneSettles(tasks) == \E i \in DOMAIN tasks : tasks[i].st # "pending"

Settled(tasks) == \A i \in DOMAIN tasks : tasks[i].st # "pending"

\* a promise settles before one of lower index has settled
OutOfOrder(tasks, i) == \E j \in DOMAIN tasks : j < i /\ tasks[j].st = "pending"

\* processCSV(csvData) is called: parse and validate, then either throw or
\* start one cleaning promise per validated row (a row without a name is
\* answered null without an AI call)
ProcessCSV ==
    /\ phase = "idle"
    /\ LET f == FrontHalf(csvData)
       IN  /\ result' = [NoResult EXCEPT !.processed = f.processed,
                                         !.errors = f.errors,
                                         !.errorDetails = f.errorDetails]
           /\ validatedRows' = f.validatedRows
           /\ hist' = [hist EXCEPT !.errAfterValidation = f.errors,
                                   !.store0 = companies,
                                   !.parsedRows = Parse(csvData).data,
                                   !.parserWarnings = Parse(csvData).warnings]
           /\ IF f.error # ""
              THEN /\ phase' = "threw"
                   /\ thrown' = [prefix |-> ThrowPrefix, msg |-> f.error]
                   /\ cleanTask' = <<>>
              ELSE /\ phase' = "cleaning"
                   /\ thrown' = NoThrow
                   /\ cleanTask' = [i \in DOMAIN f.validatedRows |->
                                       IF HasName(f.validatedRows[i])
                                       THEN PendingResult ELSE NullResult]
    /\ runs' = runs + 1
    /\ UNCHANGED <<csvData, enableEnrichment, aiModel, cleanCall, batch, enrichCall, now, updateCall, auxVars, cleanedCompanies, upsertIdx,
                   savedCompanies, enrichTask, aiMemo>>
    /\ UNCHANGED <<storeVars, callVars>>

\* completion.usage?.total_tokens ?? 0 of one AI call
TokenCounts == {0, 1}

\* OpenAIProvider.getCostEstimate, in units of the model's blended price
\* per token; a model outside the pricing table costs 0
GetCostEstimate(model, tokens) == IF model = "unlisted" THEN 0 ELSE tokens

\* the costs the response may report: only a successful response carries
\* a cost field, computed from the tokens used
ReportedCosts(model, response) ==
    IF response.threw \/ ~response.success THEN {0}
    ELSE {GetCostEstimate(model, tokens) : tokens \in TokenCounts}

\* the answers the AI model can give for validated row i: the one it gave
\* before for this row, if any (a cleaner that repeats itself on a re-run)
AnswersFor(i) ==
    IF i \in DOMAIN aiMemo THEN {aiMemo[i]} ELSE AIResponses

\* the AI call of cleaning promise i completes
CleanSettle(i) ==
    /\ phase = "cleaning"
    /\ i \in DOMAIN cleanTask
    /\ cleanTask[i].st = "pending"
    /\ \E response \in AnswersFor(i) :
          \E cost \in ReportedCosts(aiModel, response) :
              /\ cleanTask' = [cleanTask EXCEPT
                                  ![i] = CleanDataResult(validatedRows[i], response)]
              /\ hist' = [hist EXCEPT
                             !.cleanedOutOfOrder = @ \/ OutOfOrder(cleanTask, i),
                             !.aiCost = @ + cost,
                             !.lastAnswer = [i |-> i, response |-> response]]
    /\ UNCHANGED <<csvData, enableEnrichment, aiModel, cleanCall, batch, enrichCall, now, updateCall, auxVars, phase, thrown, result,
                   validatedRows, cleanedCompanies, upsertIdx, savedCompanies,
                   enrichTask, aiMemo, runs>>
    /\ UNCHANGED <<storeVars, callVars>>

\* the record handed to upsertCompany for a cleaned company
UpsertRecord(cleaned) ==
    [name |-> cleaned.name, domain |-> cleaned.domain, payload |-> cleaned.payload]

\* `if (cleanedCompanies.length === 0) throw`
AllCleaningFailed_IfAnyFailed(c) == c.errors > 0

AllCleaningFailed_Never(c) == FALSE

AllCleaningFailed(c) == Len(c.cleaned) = 0

\* Promise.allSettled has resolved: collect, then throw or go on to the
\* upsert loop
AfterCleaning ==
    /\ phase = "cleaning"
    /\ Settled(cleanTask)
    /\ LET c == CollectCleaning(cleanTask)
       IN  /\ cleanedCompanies' = c.cleaned
           /\ result' = [result EXCEPT !.errors = @ + c.errors,
                                       !.errorDetails = @ \o c.details]
           /\ hist' = [hist EXCEPT !.errAfterCleaning = result'.errors]
           /\ IF AllCleaningFailed(c)
              THEN /\ phase' = "threw"
                   /\ thrown' = [prefix |-> ThrowPrefix,
                                 msg |-> "AI cleaning failed for all companies"]
              ELSE /\ phase' = "upserting"
                   /\ thrown' = thrown
    /\ upsertIdx' = 0
    /\ aiMemo' = [i \in DOMAIN cleanTask |->
                     IF i \in DOMAIN aiMemo THEN aiMemo[i]
                     ELSE IF cleanTask[i].st = "ok"
                          THEN Answer(FALSE, TRUE, "object", cleanTask[i].name,
                                      cleanTask[i].domain, NULL,
                                      cleanTask[i].employee_size)
                          ELSE Answer(FALSE, FALSE, "undefined", MISSING,
                                      MISSING, MISSING, MISSING)]
    /\ UNCHANGED <<csvData, enableEnrichment, aiModel, cleanCall, batch, enrichCall, now, updateCall, auxVars, validatedRows, cleanTask,
                   savedCompanies, enrichTask, runs>>
    /\ UNCHANGED <<storeVars, callVars>>

\* the company object kept for enrichment: what `returning` gave back
Snapshot(id, rec) == [id |-> id, name |-> rec.name]

\* lines 189-211 after `await upsertCompany(cleaned)` has settled
CountUpsert_IgnoresThrow(res, r, i) ==
    IF r.wasUpdated THEN [res EXCEPT !.updated = @ + 1]
                    ELSE [res EXCEPT !.inserted = @ + 1]

CountUpsert(res, r, i) ==
    IF r.threw
    THEN [res EXCEPT !.errors = @ + 1,
                     !.errorDetails = Append(@, Detail(i, "Database error"))]
    ELSE IF r.wasUpdated THEN [res EXCEPT !.updated = @ + 1]
                         ELSE [res EXCEPT !.inserted = @ + 1]

EnrichFinal == {"ok", "newsFailed", "updateFailed"}

\* `if (this.enrichmentService && savedCompanies.length > 0)`
EnrichmentStarts_WheneverSaved(enabled, saved) == Len(saved) > 0

EnrichmentStarts(enabled, saved) == enabled /\ Len(saved) > 0

\* one turn of `for (let i = 0; i < cleanedCompanies.length; i++)`: count
\* the upsertCompany call that has settled (if one was made), then call
\* upsertCompany for the next cleaned company, or leave the loop and either
\* start one enrichment promise per saved company or return
UpsertLoop ==
    /\ phase = "upserting"
    /\ upc[RunCaller] = "idle"
    /\ LET r == ures[RunCaller]
           counted == upsertIdx >= 1
           res == IF counted THEN CountUpsert(result, r, upsertIdx) ELSE result
           saved == IF counted /\ ~r.threw /\ r.company # NoRow
                    THEN Append(savedCompanies,
                                Snapshot(r.company, cleanedCompanies[upsertIdx]))
                    ELSE savedCompanies
           h == IF ~counted THEN [hist EXCEPT !.lastAnswer = NoAnswer]
                ELSE [hist EXCEPT
                         !.upsertThrew = IF r.threw THEN @ \cup {upsertIdx} ELSE @,
                         !.upserts = Append(@, IF r.threw THEN "threw"
                                               ELSE IF r.wasUpdated THEN "updated"
                                               ELSE "inserted"),
                         !.savedFrom = IF saved # savedCompanies
                                       THEN Append(@, upsertIdx) ELSE @]
       IN  /\ savedCompanies' = saved
           /\ upsertIdx' = upsertIdx + 1
           /\ IF upsertIdx < Len(cleanedCompanies)
              THEN /\ phase' = phase
                   /\ result' = res
                   /\ enrichTask' = enrichTask
                   /\ hist' = [h EXCEPT !.upsertCalls = @ + 1]
                   /\ UpsertEnter(RunCaller,
                                  UpsertRecord(cleanedCompanies[upsertIdx + 1]))
                   /\ calls' = calls
              ELSE /\ UNCHANGED callVars
                   /\ hist' = h
                   /\ IF EnrichmentStarts(enableEnrichment, saved)
                      THEN /\ phase' = "enriching"
                           /\ enrichTask' = [i \in DOMAIN saved |-> "news"]
                           /\ result' = res
                      ELSE /\ phase' = "returned"
                           /\ enrichTask' = enrichTask
                           /\ result' = IF ~enableEnrichment
                                        THEN [res EXCEPT
                                                !.enrichmentSkipped = Len(saved)]
                                        ELSE res
    /\ UNCHANGED <<csvData, enableEnrichment, aiModel, cleanCall, batch, enrichCall, now, updateCall, auxVars, thrown, validatedRows, cleanTask,
                   cleanedCompanies, aiMemo, runs>>
    /\ UNCHANGED storeVars

EnrichOutOfOrder(i) ==
    \E j \in DOMAIN enrichTask : j < i /\ enrichTask[j] \notin EnrichFinal

\* enrichCompany, step 1: the News Search call of promise i settles; a
\* failure makes enrichCompany throw, which the promise turns into
\* {success: false}
NewsSettle(i) ==
    /\ phase = "enriching"
    /\ i \in DOMAIN enrichTask
    /\ enrichTask[i] = "news"
    /\ \E ok \in BOOLEAN :
          /\ enrichTask' = [enrichTask EXCEPT
                              ![i] = IF ok THEN "signals" ELSE "newsFailed"]
          /\ hist' = [hist EXCEPT !.enrichedOutOfOrder =
                                     @ \/ (~ok /\ EnrichOutOfOrder(i))]
    /\ UNCHANGED <<csvData, enableEnrichment, aiModel, cleanCall, batch, enrichCall, now, updateCall, auxVars, phase, thrown, result,
                   validatedRows, cleanTask, cleanedCompanies, upsertIdx,
                   savedCompanies, aiMemo, runs>>
    /\ UNCHANGED <<storeVars, callVars>>

\* what the AI model may answer to the signal-extraction request: a
\* failure, or success with some object
SignalAnswers ==
    FailedAnswers
    \cup {Answer(FALSE, TRUE, "object", MISSING, MISSING, MISSING, MISSING)}

\* enrichCompany, step 2: the AI call of extractSignalsFromNews settles;
\* whatever it answers, enrichCompany returns a result and
\* updateCompanyEnrichment(company.id, result) is called
SignalsSettle(i) ==
    /\ phase = "enriching"
    /\ i \in DOMAIN enrichTask
    /\ enrichTask[i] = "signals"
    /\ enrichTask' = [enrichTask EXCEPT ![i] = "update"]
    /\ \E cost \in UNION {ReportedCosts(aiModel, response) :
                              response \in SignalAnswers} :
          hist' = [hist EXCEPT !.updateCalls = @ + 1,
                               !.aiCost = @ + cost]
    /\ UNCHANGED <<csvData, enableEnrichment, aiModel, cleanCall, batch, enrichCall, now, updateCall, auxVars, phase, thrown, result,
                   validatedRows, cleanTask, cleanedCompanies, upsertIdx,
                   savedCompanies, aiMemo, runs>>
    /\ UNCHANGED <<storeVars, callVars>>

ENRICHED == "enriched"

UpdateCompanyEnrichment_AllRows(store, id) ==
    {[r EXCEPT !.enrichment_data = ENRICHED, !.enriched_at = now,
               !.updated_at = now] : r \in store}

\* update company set enrichment_data = ..., enriched_at = now,
\* updated_at = now where id = companyId
UpdateCompanyEnrichment(store, id) ==
    {IF r.id = id
        THEN [r EXCEPT !.enrichment_data = ENRICHED, !.enriched_at = now,
                       !.updated_at = now]
        ELSE r : r \in store}

\* `if (!updated) throw new Error("Company with id ... not found")`
NotFound(store, id) == ~ \E r \in store : r.id = id

\* the store write of updateCompanyEnrichment for promise i settles: it
\* updates the row, or throws (row not found, or the store rejects)
UpdateSettle(i) ==
    /\ phase = "enriching"
    /\ i \in DOMAIN enrichTask
    /\ enrichTask[i] = "update"
    /\ \E storeOk \in BOOLEAN :
          LET found == \E r \in companies : r.id = savedCompanies[i].id
          IN  /\ companies' = IF storeOk
                              THEN UpdateCompanyEnrichment(companies,
                                                           savedCompanies[i].id)
                              ELSE companies
              /\ enrichTask' = [enrichTask EXCEPT
                                  ![i] = IF storeOk /\ found
                                         THEN "ok" ELSE "updateFailed"]
    /\ hist' = [hist EXCEPT !.enrichedOutOfOrder = @ \/ EnrichOutOfOrder(i)]
    /\ UNCHANGED <<csvData, enableEnrichment, aiModel, cleanCall, batch, enrichCall, now, updateCall, auxVars, phase, thrown, result,
                   validatedRows, cleanTask, cleanedCompanies, upsertIdx,
                   savedCompanies, aiMemo, runs>>
    /\ UNCHANGED <<nextId, callVars>>

\* `Enrichment failed for ${company}: ${error}`: the error is the one
\* enrichCompany or updateCompanyEnrichment threw
EnrichmentFailed(task) ==
    Detail(0, IF task = "newsFailed" THEN "Enrichment failed: news search"
              ELSE "Enrichment failed: store update")

\* lines 259-289: the loop over the settled enrichment promises
RECURSIVE CountEnrichmentFrom(_, _, _)
CountEnrichmentFrom(res, tasks, i) ==
    IF i > Len(tasks) THEN res
    ELSE CountEnrichmentFrom(
            IF tasks[i] = "ok"
            THEN [res EXCEPT !.enriched = @ + 1]
            ELSE [res EXCEPT !.enrichmentErrors = @ + 1,
                             !.errorDetails = Append(@, EnrichmentFailed(tasks[i]))],
            tasks, i + 1)

CountEnrichment_CountsAllEnriched(res, tasks) ==
    [res EXCEPT !.enriched = Len(tasks)]

CountEnrichment(res, tasks) == CountEnrichmentFrom(res, tasks, 1)

\* Promise.allSettled of the enrichment promises has resolved: count, return
AfterEnrichment ==
    /\ phase = "enriching"
    /\ \A i \in DOMAIN enrichTask : enrichTask[i] \in EnrichFinal
    /\ result' = CountEnrichment(result, enrichTask)
    /\ phase' = "returned"
    /\ UNCHANGED <<csvData, enableEnrichment, aiModel, cleanCall, batch, enrichCall, now, updateCall, auxVars, thrown, validatedRows, cleanTask,
                   cleanedCompanies, upsertIdx, savedCompanies, enrichTask,
                   aiMemo, runs, hist>>
    /\ UNCHANGED <<storeVars, callVars>>

\* ------------------------------------------------------------------------
\* Specification of one processCSV run
\* ------------------------------------------------------------------------
HeaderLine == <<"name", Comma, "domain">>
LineTemplates ==
    { HeaderLine,
      <<Quote, "Acme", Comma, "Inc", Quote, Comma, "acme.com">>, \* "Acme,Inc",acme.com
      <<"Acme">>,                                    \* one column short
      <<Comma, Blank, "acme.com", Comma, "x">>,      \* no name, one column more
      <<"Acme", Comma, "Acme">>,                     \* malformed domain
      <<Comma>>,                                     \* neither name nor domain
      <<Blank>> }                                    \* blank line

RECURSIVE Join(_)
Join(ls) ==
    IF ls = <<>> THEN <<>>
    ELSE IF Len(ls) = 1 THEN ls[1]
    ELSE ls[1] \o <<LF>> \o Join(Tail(ls))

\* the texts of at most n lines
CSVTexts(n) == {Join(ls) : ls \in UNION {[1 .. k -> LineTemplates] : k \in 0 .. n}}

InitialStores ==
    { {},
      {[id |-> 1, name |-> "A", domain |-> "d1", payload |-> 0,
        enrichment_data |-> NULL, created_at |-> 1, updated_at |-> 1,
        enriched_at |-> NoTime]} }

CallersIdle ==
    /\ upc = [c \in Callers |-> "idle"]
    /\ uarg = [c \in Callers |-> NoArg]
    /\ uexisting = [c \in Callers |-> NoRow]
    /\ ures = [c \in Callers |-> NoRes]
    /\ calls = 0
    /\ maxInFlight = 1
    /\ overlapped = FALSE
    /\ sawDomain = FALSE
    /\ lastWrite = 0
    /\ lastDone = [arg |-> NoArg, ok |-> FALSE]
    /\ uhist = [c \in Callers |-> NoHist]

UploadInit ==
    /\ companies \in InitialStores
    /\ nextId = Cardinality(companies) + 1
    /\ CallersIdle
    /\ csvData \in CSVTexts(MaxLines)
    /\ enableEnrichment \in BOOLEAN
    /\ aiModel = "unlisted"
    /\ PipeIdle

UploadNext ==
    \/ ProcessCSV
    \/ \E i \in 1 .. MaxLines : CleanSettle(i)
    \/ AfterCleaning
    \/ FindByDomain(RunCaller)
    \/ FindByName(RunCaller)
    \/ Write(RunCaller)
    \/ StoreThrows(RunCaller)
    \/ UpsertLoop
    \/ \E i \in 1 .. MaxLines : NewsSettle(i)
    \/ \E i \in 1 .. MaxLines : SignalsSettle(i)
    \/ \E i \in 1 .. MaxLines : UpdateSettle(i)
    \/ AfterEnrichment

SpecUpload == UploadInit /\ [][UploadNext]_vars

\* ------------------------------------------------------------------------
\* Properties of the store (SpecStore)
\* ------------------------------------------------------------------------
SameDomainRows(d) == {r \in companies : r.domain = d}
SameNameRows(n) == {r \in companies : r.name = n}
Idle(c) == upc[c] = "idle"

\* C3 as stated: starting from an empty store, after any sequence of
\* upsertCompany calls that do not overlap, no two Company rows have the
\* same non-null domain.
C3_NoTwoRowsShareNonNullDomain ==
    ~overlapped =>
        \A r1, r2 \in companies :
            (r1.domain # NULL /\ r1.domain = r2.domain) => r1.id = r2.id

\* C3 amended: starting from an empty store, after any sequence of
\* upsertCompany calls that do not overlap, no two Company rows have the
\* same non-null, non-empty domain (a blank domain counts as no domain).
C3_NoTwoRowsShareDomain ==
    ~overlapped =>
        \A r1, r2 \in companies :
            (Truthy(r1.domain) /\ r1.domain = r2.domain) => r1.id = r2.id

\* a non-overlapping call with a domain matched an existing row, and the
\* store holds several rows
C3_Witness ==
    /\ ~overlapped
    /\ Cardinality(companies) >= 2
    /\ \E c \in Callers :
          /\ Idle(c) /\ ures[c].returned /\ ures[c].wasUpdated
          /\ Truthy(uarg[c].domain)
          /\ SameDomainRows(uarg[c].domain) # {}

\* C4 as stated: starting from an empty store, after any sequence of
\* non-overlapping upsertCompany calls, no two Company rows with a null
\* domain have the same name.
C4_NoTwoNullDomainRowsShareName ==
    ~overlapped =>
        \A r1, r2 \in companies :
            (r1.domain = NULL /\ r2.domain = NULL /\ r1.name = r2.name)
                => r1.id = r2.id

\* C4 amended: starting from an empty store, after any sequence of
\* non-overlapping upsertCompany calls whose records all have no domain, no
\* two Company rows have the same name; the row findByName hands to the
\* write is one of the rows carrying that name.
C4_DomainlessUpsertsKeepNamesUnique ==
    (~overlapped /\ ~sawDomain) =>
        /\ \A r1, r2 \in companies : r1.name = r2.name => r1.id = r2.id
        /\ \A c \in Callers :
              (upc[c] = "write" /\ uexisting[c] # NoRow) =>
                  \E r \in SameNameRows(uarg[c].name) : r.id = uexisting[c]

\* a domainless call matched an existing row by name, several rows stored
C4_Witness ==
    /\ ~overlapped /\ ~sawDomain
    /\ Cardinality(companies) >= 2
    /\ \E c \in Callers :
          Idle(c) /\ ures[c].returned /\ ures[c].wasUpdated

\* two calls, started on an empty store, overlapped and both returned,
\* and their records carry the same domain
RacedOnSameDomain ==
    /\ calls = 2 /\ overlapped
    /\ \A c \in {1, 2} : Idle(c) /\ ures[c].returned
    /\ uarg[1].domain = uarg[2].domain
    /\ Truthy(uarg[1].domain)

\* C5: when two upsertCompany calls for records with the same non-null
\* domain overlap in time, the store ends with exactly one Company row for
\* that domain, holding the fields of the write that was applied last.
C5_LastWriterWins ==
    RacedOnSameDomain =>
        /\ Cardinality(SameDomainRows(uarg[1].domain)) = 1
        /\ \A r \in SameDomainRows(uarg[1].domain) : r.payload = lastWrite

\* the call caller c made last returned, ran alone, and directly followed
\* a call that returned, ran alone and carried the same (name, domain)
SecondOfSamePair(c) ==
    /\ Idle(c) /\ ures[c].returned
    /\ uhist[c].alone
    /\ uhist[c].prev.ok
    /\ uhist[c].prev.arg.name = uarg[c].name
    /\ uhist[c].prev.arg.domain = uarg[c].domain

\* C6: from any store state, the second of two successive non-overlapping
\* upsertCompany calls with the same (name, domain) pair returns
\* wasUpdated = true and leaves the number of rows unchanged.
C6_SecondUpsertUpdates ==
    \A c \in Callers :
        SecondOfSamePair(c) =>
            /\ ures[c].wasUpdated
            /\ ures[c].rows = uhist[c].rowsAtCall

\* the second call of such a pair has returned, on a store of several rows
C6_Witness ==
    \E c \in Callers :
        SecondOfSamePair(c) /\ ures[c].wasUpdated /\ ures[c].rows >= 2

\* ------------------------------------------------------------------------
\* Specification of two processCSV runs on the same text
\* ------------------------------------------------------------------------
\* data lines that pass validation, no two alike
RerunLines ==
    << <<"Acme", Comma, "acme.com">>,
       <<"Acme", Comma, "beta.io">>,
       <<"Beta", Comma, "beta.io">>,
       <<"Beta", Comma, "acme.com">> >>

\* the header followed by the first k data lines
RerunTexts(n) ==
    {Join(<<HeaderLine>> \o SubSeq(RerunLines, 1, k)) : k \in 1 .. n}

\* the upload worker's service: enrichment disabled, an empty table
RerunInit ==
    /\ companies = {}
    /\ nextId = 1
    /\ CallersIdle
    /\ csvData \in RerunTexts(MaxRerunRows)
    /\ enableEnrichment = FALSE
    /\ aiModel = "unlisted"
    /\ PipeIdle

\* processCSV has returned and is called again with the same text; the AI
\* model will repeat the answers it gave (aiMemo)
Rerun ==
    /\ phase = "returned"
    /\ runs = 1
    /\ phase' = "idle"
    /\ thrown' = NoThrow
    /\ result' = NoResult
    /\ validatedRows' = <<>>
    /\ cleanTask' = <<>>
    /\ cleanedCompanies' = <<>>
    /\ upsertIdx' = 0
    /\ savedCompanies' = <<>>
    /\ enrichTask' = <<>>
    /\ hist' = [NoRunHist EXCEPT !.rowsAfterFirstRun = Cardinality(companies)]
    /\ UNCHANGED <<csvData, enableEnrichment, aiModel, cleanCall, batch, enrichCall, now, updateCall, auxVars, aiMemo, runs>>
    /\ UNCHANGED <<storeVars, callVars>>

\* the store answers every operation of both runs
RerunNext ==
    \/ ProcessCSV
    \/ \E i \in 1 .. MaxRerunRows : CleanSettle(i)
    \/ AfterCleaning
    \/ FindByDomain(RunCaller)
    \/ FindByName(RunCaller)
    \/ Write(RunCaller)
    \/ UpsertLoop
    \/ Rerun

SpecRerun == RerunInit /\ [][RerunNext]_vars

\* ------------------------------------------------------------------------
\* Specification of one processCSV run whose AI model may be a priced one
\* ------------------------------------------------------------------------
CostInit ==
    /\ companies = {}
    /\ nextId = 1
    /\ CallersIdle
    /\ csvData \in RerunTexts(MaxCostRows)
    /\ enableEnrichment \in BOOLEAN
    /\ aiModel \in AIModels
    /\ PipeIdle

CostNext ==
    \/ ProcessCSV
    \/ \E i \in 1 .. MaxCostRows : CleanSettle(i)
    \/ AfterCleaning
    \/ FindByDomain(RunCaller)
    \/ FindByName(RunCaller)
    \/ Write(RunCaller)
    \/ StoreThrows(RunCaller)
    \/ UpsertLoop
    \/ \E i \in 1 .. MaxCostRows : NewsSettle(i)
    \/ \E i \in 1 .. MaxCostRows : SignalsSettle(i)
    \/ \E i \in 1 .. MaxCostRows : UpdateSettle(i)
    \/ AfterEnrichment

SpecCost == CostInit /\ [][CostNext]_vars

\* ------------------------------------------------------------------------
\* Properties of processCSV (SpecUpload)
\* ------------------------------------------------------------------------
\* lines of the text holding a character that is not white space
NonBlankLines(csv) ==
    LET lines == Split(csv, LF)
    IN  Cardinality({i \in DOMAIN lines :
                        \E k \in DOMAIN lines[i] : lines[i][k] # Blank})

\* the cleaning promises that came back with null
FailedCleanings == {i \in DOMAIN cleanTask : cleanTask[i].st = "null"}
Collected == phase \in {"upserting", "enriching", "returned"}

\* C2: when N rows pass validation and exactly K of the N cleaning calls
\* fail, 0 <= K < N, errors is incremented by exactly K and exactly N - K
\* cleaned records go on to the upsert phase (one upsertCompany call each),
\* whichever calls fail and in whatever order they complete.
C2_CleaningCounts ==
    Collected =>
        LET N == Len(validatedRows)
            K == Cardinality(FailedCleanings)
        IN  /\ K < N
            /\ hist.errAfterCleaning - hist.errAfterValidation = K
            /\ Len(cleanedCompanies) = N - K
            /\ hist.upsertCalls <= N - K
            /\ phase = "returned" => hist.upsertCalls = N - K

\* a run returned in which one of two cleaning calls failed and the second
\* call completed before the first
C2_Witness ==
    /\ phase = "returned"
    /\ Len(validatedRows) = 2
    /\ Cardinality(FailedCleanings) = 1
    /\ hist.cleanedOutOfOrder

NewsFailed == {i \in DOMAIN enrichTask : enrichTask[i] = "newsFailed"}
StoreAcceptedUpdates == \A i \in DOMAIN enrichTask : enrichTask[i] # "updateFailed"
EnrichedIds == {r.id : r \in {q \in companies : q.enrichment_data = ENRICHED}}

C8_OneCleanRowSuffices ==
    (\E i \in DOMAIN cleanTask : cleanTask[i].st = "ok") => phase # "threw"

\* a run returned although a row failed before the upsert phase and every
\* upsertCompany call threw
C8_Witness ==
    /\ phase = "returned"
    /\ hist.errAfterCleaning >= 1
    /\ result.inserted + result.updated = 0
    /\ result.errors > hist.errAfterCleaning

\* the three fatal cases, once the run has got that far
FatalCase ==
    \/ NonBlankLines(csvData) < 2
    \/ Len(validatedRows) = 0
    \/ phase # "cleaning" /\ FailedCleanings = DOMAIN cleanTask

\* C9: processCSV throws an error prefixed 'CSV processing failed: ' when
\* the input has fewer than 2 non-empty lines, when zero rows survive
\* validation, and when every validated row fails cleaning; no
\* upsertCompany and no updateCompanyEnrichment call has been made and the
\* store is unchanged.
C9_FatalCasesThrow ==
    (phase \notin {"idle", "cleaning"} /\ FatalCase) =>
        /\ phase = "threw"
        /\ thrown.prefix = ThrowPrefix
        /\ hist.upsertCalls = 0
        /\ hist.updateCalls = 0
        /\ companies = hist.store0

\* a run threw because both validated rows failed cleaning, on a store that
\* already held a company
C9_Witness ==
    /\ phase = "threw"
    /\ Len(validatedRows) = 2
    /\ FailedCleanings = {1, 2}
    /\ companies # {}

\* C10: whenever processCSV returns, processed equals the number of
\* non-blank data lines (every non-blank line after the header line),
\* including lines whose field count differs from the header's.
C10_ProcessedCountsDataLines ==
    phase = "returned" => result.processed = NonBlankLines(csvData) - 1

\* a run returned that counted two rows, one of them ragged
C10_Witness ==
    /\ phase = "returned"
    /\ result.processed = 2
    /\ \E k \in DOMAIN result.errorDetails :
          result.errorDetails[k].msg = "Expected columns"

\* C1: running processCSV a second time on the same CSV text, with a
\* cleaner that repeats its answers, creates no new rows: the second run
\* returns inserted = 0 and the table holds as many rows as after the
\* first run, also when cleaned records share names or domains.
C1_RerunInsertsNothing ==
    (runs = 2 /\ phase = "returned") =>
        /\ result.inserted = 0
        /\ Cardinality(companies) = hist.rowsAfterFirstRun

\* the rows CSVParser.parse produced for the text of the run
ParsedRows == hist.parsedRows
EmptyField(v) == v = UNDEF \/ v = <<>>
NamelessDomainless ==
    {i \in DOMAIN ParsedRows :
        EmptyField(ParsedRows[i].name) /\ EmptyField(ParsedRows[i].domain)}

\* C11: for every parsed row whose name and domain are both empty,
\* errorDetails holds a diagnostic naming that row, and the row is not
\* among the rows handed to the cleaner, so neither cleanData nor the AI
\* model is ever called with it.
C11_EmptyRowsDiagnosedNotCleaned ==
    phase # "idle" =>
        \A i \in NamelessDomainless :
            /\ \E k \in DOMAIN result.errorDetails :
                  result.errorDetails[k] =
                      Detail(i + 1, "Company must have either a name or domain")
            /\ \A k \in DOMAIN validatedRows : validatedRows[k].ref # i
            /\ Len(cleanTask) <= Len(ParsedRows) - Cardinality(NamelessDomainless)

\* a run returned whose text held a row with neither name nor domain next
\* to a row that was cleaned
C11_Witness ==
    /\ phase = "returned"
    /\ NamelessDomainless # {}
    /\ \E i \in DOMAIN cleanTask : cleanTask[i].st = "ok"

UpsertsDone == phase \in {"enriching", "returned"}

\* C12: if upsertCompany throws for a cleaned record, errors is incremented
\* by one and a diagnostic for that record is appended to errorDetails, the
\* remaining records are still upserted, and the record is not among the
\* saved companies, so enrichCompany is never called for it.
C12_UpsertFailureIsolated ==
    Collected =>
        /\ result.errors = hist.errAfterCleaning + Cardinality(hist.upsertThrew)
        /\ \A i \in hist.upsertThrew :
              \E k \in DOMAIN result.errorDetails :
                  result.errorDetails[k] = Detail(i, "Database error")
        /\ Len(hist.savedFrom) = Len(savedCompanies)
        /\ \A k \in DOMAIN hist.savedFrom : hist.savedFrom[k] \notin hist.upsertThrew
        /\ DOMAIN enrichTask \subseteq DOMAIN savedCompanies
        /\ UpsertsDone =>
              /\ hist.upsertCalls = Len(cleanedCompanies)
              /\ Len(savedCompanies) =
                    Len(cleanedCompanies) - Cardinality(hist.upsertThrew)

\* a run returned after the first of two upsertCompany calls threw and the
\* company saved by the second was enriched
C12_Witness ==
    /\ phase = "returned"
    /\ Len(cleanedCompanies) = 2
    /\ hist.upsertThrew = {1}
    /\ hist.savedFrom = <<2>>
    /\ enrichTask = <<"ok">>

\* C13: when enrichment is disabled, processCSV makes no News Search call,
\* no signal-extraction AI call and no updateCompanyEnrichment call, and
\* returns enrichmentSkipped = the number of companies saved by the upsert
\* phase, with enriched = 0 and enrichmentErrors = 0.
C13_DisabledEnrichmentDoesNothing ==
    ~enableEnrichment =>
        /\ phase # "enriching"
        /\ enrichTask = <<>>
        /\ hist.updateCalls = 0
        /\ \A r \in companies : r.enrichment_data # ENRICHED
        /\ phase = "returned" =>
              /\ result.enrichmentSkipped = Len(savedCompanies)
              /\ result.enriched = 0
              /\ result.enrichmentErrors = 0

\* a run with enrichment disabled returned having saved two companies
C13_Witness ==
    /\ ~enableEnrichment
    /\ phase = "returned"
    /\ Len(savedCompanies) = 2
    /\ result.enrichmentSkipped = 2

CleaningStarted == cleanTask # <<>>
CleaningPending == \E i \in DOMAIN cleanTask : cleanTask[i].st = "pending"
UpsertStarted == hist.upsertCalls > 0 \/ upc[RunCaller] # "idle"
UpsertPending == upc[RunCaller] # "idle" \/ hist.upsertCalls < Len(cleanedCompanies)
EnrichmentStarted == enrichTask # <<>>

\* C14: within one processCSV run the phases are strictly ordered: no
\* cleaning call starts before all rows have been validated, no
\* upsertCompany call starts before every cleaning call of the run has
\* settled, and no enrichCompany call starts before every upsert of the
\* run has completed.
C14_PhasesStrictlyOrdered ==
    /\ CleaningStarted =>
          /\ Len(validatedRows) + hist.errAfterValidation = Len(ParsedRows)
          /\ DOMAIN cleanTask = DOMAIN validatedRows
    /\ UpsertStarted => CleaningStarted /\ ~CleaningPending
    /\ EnrichmentStarted => UpsertStarted /\ ~UpsertPending

\* an enrichment promise is running after two cleaning calls settled out
\* of order and two upserts completed
C14_Witness ==
    /\ phase = "enriching"
    /\ hist.cleanedOutOfOrder
    /\ hist.upsertCalls = 2
    /\ \E i \in DOMAIN enrichTask : enrichTask[i] = "signals"

\* the enrichment promises whose updateCompanyEnrichment wrote the row
EnrichmentWrites == {i \in DOMAIN enrichTask : enrichTask[i] = "ok"}

\* C15: in one processCSV run every successfully cleaned record causes
\* exactly one upsertCompany call, and every Company id receives at most
\* one updateCompanyEnrichment write, also when several CSV rows resolve to
\* the same Company.
C15_OneWritePerUnitPerPhase ==
    /\ UpsertsDone => hist.upsertCalls = Len(cleanedCompanies)
    /\ \A i, j \in EnrichmentWrites :
          i # j => savedCompanies[i].id # savedCompanies[j].id

\* the column-count warnings CSVParser.parse gave for the text of the run
ParserWarnings == hist.parserWarnings

\* C16 as stated: whenever processCSV returns, the length of errorDetails
\* equals errors + enrichmentErrors.
C16_DetailsMatchCounters ==
    phase = "returned" =>
        Len(result.errorDetails) = result.errors + result.enrichmentErrors

\* C16, amended: every entry appended to errorDetails other than the
\* parser's column-count warnings is accompanied by an increment of errors
\* or enrichmentErrors, so whenever processCSV returns, the length of
\* errorDetails equals errors + enrichmentErrors + the number of parser
\* warnings.
C16_DetailsMatchCountersPlusWarnings ==
    phase \notin {"idle", "enriching"} =>
        Len(result.errorDetails) =
            result.errors + result.enrichmentErrors + Len(ParserWarnings)

\* a run returned with a parser warning, a counted error and an
\* enrichment error
C16_Witness ==
    /\ phase = "returned"
    /\ Len(ParserWarnings) >= 1
    /\ result.errors >= 1
    /\ result.enrichmentErrors >= 1

\* C17: the totalCost of the UploadResult returned by processCSV equals the
\* sum of the cost values the AI model reported for the calls made during
\* the run.
C17_TotalCostIsSumOfCosts ==
    phase = "returned" => result.totalCost = hist.aiCost

\* the row numbers of the 'Row <n>: ...' diagnostics with message m
RowsNamedBy(m) ==
    {result.errorDetails[k].row :
        k \in {j \in DOMAIN result.errorDetails : result.errorDetails[j].msg = m}}

\* C18: every 'Row <n>: ...' diagnostic in errorDetails, whether it comes
\* from validation, from cleaning or from the upsert phase, uses n = the
\* row's zero-based position among the parsed data rows + 2 (its one-based
\* position ref + 1), so the same CSV row is named by the same n in every
\* phase.
C18_DiagnosticsNameCsvRow ==
    phase = "returned" =>
        /\ RowsNamedBy("Company must have either a name or domain")
              = {i + 1 : i \in NamelessDomainless}
        /\ RowsNamedBy("AI cleaning failed")
              = {validatedRows[i].ref + 1 : i \in FailedCleanings}
        /\ RowsNamedBy("Database error")
              = {cleanedCompanies[i].payload + 1 : i \in hist.upsertThrew}

\* ------------------------------------------------------------------------
\* Specification of cleanData called on its own
\* ------------------------------------------------------------------------
\* values of raw.name: absent, empty, blank, a name, a name between blanks
RawNames == {UNDEF, <<>>, <<Blank>>, <<Blank, Blank>>, <<"Acme">>,
             <<Blank, "Acme", Blank>>}
RawDomains == {UNDEF, <<>>, <<"acme.com">>}
RawRows == {[ref |-> 1, name |-> n, domain |-> d] : n \in RawNames, d \in RawDomains}

CleanInit ==
    /\ companies = {}
    /\ nextId = 1
    /\ CallersIdle
    /\ csvData = <<>>
    /\ enableEnrichment = FALSE
    /\ aiModel \in AIModels
    /\ phase = "idle"
    /\ thrown = NoThrow
    /\ result = NoResult
    /\ validatedRows = <<>>
    /\ cleanTask = <<>>
    /\ cleanedCompanies = <<>>
    /\ upsertIdx = 0
    /\ savedCompanies = <<>>
    /\ enrichTask = <<>>
    /\ aiMemo = <<>>
    /\ runs = 0
    /\ hist = NoRunHist
    /\ cleanCall \in {[NoCleanCall EXCEPT !.pc = "called", !.raw = raw] :
                        raw \in RawRows}
    /\ batch = NoBatch
    /\ enrichCall = NoEnrichCall
    /\ now = 1
    /\ updateCall = NoUpdateCall
    /\ AuxIdle

\* cleanData(raw) runs up to its return of null or to the AI model call
CleanDataEnter ==
    /\ cleanCall.pc = "called"
    /\ cleanCall' = IF HasName(cleanCall.raw)
                    THEN [cleanCall EXCEPT !.pc = "ai", !.aiCalls = @ + 1]
                    ELSE [cleanCall EXCEPT !.pc = "returned", !.result = NullResult]
    /\ UNCHANGED <<csvData, enableEnrichment, aiModel, batch, enrichCall, now, updateCall, auxVars, phase, thrown, result,
                   validatedRows, cleanTask, cleanedCompanies, upsertIdx,
                   savedCompanies, enrichTask, aiMemo, runs, hist>>
    /\ UNCHANGED <<storeVars, callVars>>

\* the AI model answers (or throws) and cleanData returns
CleanDataAnswer ==
    /\ cleanCall.pc = "ai"
    /\ \E response \in AllAIResponses :
          cleanCall' = [cleanCall EXCEPT
                           !.pc = "returned",
                           !.result = CleanDataResult(cleanCall.raw, response)]
    /\ UNCHANGED <<csvData, enableEnrichment, aiModel, batch, enrichCall, now, updateCall, auxVars, phase, thrown, result,
                   validatedRows, cleanTask, cleanedCompanies, upsertIdx,
                   savedCompanies, enrichTask, aiMemo, runs, hist>>
    /\ UNCHANGED <<storeVars, callVars>>

CleanNext == CleanDataEnter \/ CleanDataAnswer

SpecClean == CleanInit /\ [][CleanNext]_vars

\* ------------------------------------------------------------------------
\* Properties of cleanData (SpecClean)
\* ------------------------------------------------------------------------
\* the name is missing, or nothing but white space
NoUsableName(raw) ==
    raw.name = UNDEF \/ \A k \in DOMAIN raw.name : raw.name[k] = Blank

\* C19: cleanData returns null without making any AI model call for every
\* row whose name is missing or empty after trimming.
C19_NamelessRowShortCircuits ==
    (cleanCall.pc # "idle" /\ NoUsableName(cleanCall.raw)) =>
        /\ cleanCall.aiCalls = 0
        /\ cleanCall.pc \in {"called", "returned"}
        /\ cleanCall.pc = "returned" => cleanCall.result = NullResult

\* cleanData returned for a row whose name is blanks only
C19_Witness ==
    /\ cleanCall.pc = "returned"
    /\ cleanCall.raw.name = <<Blank, Blank>>
    /\ cleanCall.result = NullResult

\* C20: every non-null result of cleanData has a non-empty string name and
\* an employee_size that is one of the 8 fixed bucket labels, whatever
\* object the AI model returns.
C20_CleanedDataWellFormed ==
    (cleanCall.pc = "returned" /\ cleanCall.result # NullResult) =>
        /\ cleanCall.result.st = "ok"
        /\ cleanCall.result.name \notin {MISSING, NotAString, NULL, ""}
        /\ cleanCall.result.employee_size \in
              {"1-10", "11-50", "51-200", "201-500", "501-1,000",
               "1,001-5,000", "5,001-10,000", "10,000+"}

\* cleanData returned cleaned data in the largest bucket for a name written
\* between blanks
C20_Witness ==
    /\ cleanCall.pc = "returned"
    /\ cleanCall.raw.name = <<Blank, "Acme", Blank>>
    /\ cleanCall.aiCalls = 1
    /\ cleanCall.result.st = "ok"
    /\ cleanCall.result.employee_size = "10,000+"

\* C21: every cleaned record produced by cleanData has a domain that is
\* null or carries no scheme and no path, whatever string the AI model
\* returns for domain.
C21_CleanedDomainIsBare ==
    (cleanCall.pc = "returned" /\ cleanCall.result # NullResult) =>
        \/ cleanCall.result.domain = NULL
        \/ cleanCall.result.domain \notin {"https://d1", "d1/about"}

\* ---------------------------------------------------------------------
\* cleanData failures inside processCSV (SpecUpload)

\* the AI model threw, reported failure, returned no data, or returned data
\* of an invalid shape
UnusableAnswer(r) ==
    r.threw \/ ~r.success \/ r.data # "object" \/ ~IsValidCleanedData(r)

\* the last answer the AI model gave to a cleaning request was unusable
LastAnswerUnusable ==
    hist.lastAnswer.i # 0 /\ UnusableAnswer(hist.lastAnswer.response)

\* cleanData returned null for every unusable answer, and processCSV
\* counted one error and one detail line for each row whose cleaning failed
FailedCleaningCounted ==
    /\ LastAnswerUnusable =>
           /\ hist.lastAnswer.i \in DOMAIN cleanTask
           /\ cleanTask[hist.lastAnswer.i] = NullResult
    /\ phase \notin {"idle", "cleaning"} /\ Len(validatedRows) > 0 =>
           /\ hist.errAfterCleaning - hist.errAfterValidation
                  = Cardinality(FailedCleanings)
           /\ Len(result.errorDetails) >= hist.errAfterCleaning

\* C22 as stated: cleanData never throws: when the AI model reports
\* failure, returns no data, returns data of an invalid shape, or throws,
\* cleanData returns null, and processCSV counts exactly one error for that
\* row without aborting.
C22_FailedCleaningNeverAborts ==
    /\ FailedCleaningCounted
    /\ (phase \notin {"idle", "cleaning"} /\ FailedCleanings # {}) =>
           phase # "threw"

\* C22, amended: cleanData returns null for every unusable answer and
\* processCSV counts exactly one error for that row; the run goes on when
\* at least one validated row was cleaned, and throws when every validated
\* row failed cleaning.
C22_FailedCleaningCountedOnce ==
    /\ FailedCleaningCounted
    /\ (phase \notin {"idle", "cleaning"} /\ FailedCleanings # {}) =>
           (phase = "threw" <=> FailedCleanings = DOMAIN cleanTask)

\* the AI model threw on the last cleaning request, cleanData returned null,
\* and processCSV went on to the upsert phase with one error counted and
\* one cleaned record
C22_Witness ==
    /\ phase = "upserting"
    /\ upsertIdx = 0
    /\ hist.lastAnswer.i # 0
    /\ hist.lastAnswer.response.threw
    /\ cleanTask[hist.lastAnswer.i] = NullResult
    /\ hist.errAfterCleaning - hist.errAfterValidation = 1
    /\ Len(cleanedCompanies) = 1

\* ------------------------------------------------------------------------
\* CompanyDataAICleaner.cleanBatchData over OpenAIProvider.batchCleanData
\* (src/lib/ai/cleaning.ts, src/lib/ai/providers/openai.ts)
\* ------------------------------------------------------------------------
MaxRequests == 6

BatchSize_WholeList == MaxRequests + 1

\* `const batchSize = 5`
BatchSize == 5

\* what client.chat.completions.create does for one request: it throws,
\* or returns a completion with no content, with content that is not JSON,
\* or with the JSON text of some data (total_tokens is 1)
Completions ==
    {[kind |-> k, data |-> Answer(FALSE, FALSE, "undefined", MISSING, MISSING,
                                  MISSING, MISSING)] :
        k \in {"threw", "empty", "badjson"}}
    \cup {[kind |-> "json", data |-> Answer(FALSE, TRUE, "object", n, "d1", NULL, e)] :
            n \in {"A", "B"}, e \in {"1-10"}}
    \cup {[kind |-> "json", data |-> Answer(FALSE, TRUE, "object", "A", "d1", NULL,
                                           "many")]}

\* OpenAIProvider.cleanData: the CleaningResponse made of a completion; it
\* never throws
ProviderCleanData(model, completion) ==
    CASE completion.kind = "threw" ->
            [success |-> FALSE, data |-> completion.data, tokensUsed |-> 0,
             cost |-> 0, error |-> "thrown"]
      [] completion.kind = "empty" ->
            [success |-> FALSE, data |-> completion.data, tokensUsed |-> 0,
             cost |-> 0, error |-> "No response from model"]
      [] completion.kind = "badjson" ->
            [success |-> FALSE, data |-> completion.data, tokensUsed |-> 0,
             cost |-> 0, error |-> "Invalid JSON response from model"]
      [] OTHER ->
            [success |-> TRUE, data |-> completion.data, tokensUsed |-> 1,
             cost |-> GetCostEstimate(model, 1), error |-> MISSING]

\* a request whose cleanData call has not settled has no response yet
NoResponse == [success |-> FALSE, data |-> Answer(FALSE, FALSE, "undefined", MISSING,
                                                  MISSING, MISSING, MISSING),
               tokensUsed |-> 0, cost |-> 0, error |-> MISSING]

\* `requests.slice(i, i + batchSize)`: the requests of the batch at index i
BatchSlice(i, n) == {k \in 1..n : k > i /\ k <= i + BatchSize}

BatchInFlight(call) == {k \in DOMAIN call : call[k].st = "inflight"}

\* `batch.map((request) => this.cleanData(request))`: every request of the
\* batch at index i starts its call
StartBatch(b, i) ==
    LET started == [k \in DOMAIN b.call |->
                       IF k \in BatchSlice(i, Len(b.raw))
                       THEN [st |-> "inflight", response |-> NoResponse]
                       ELSE b.call[k]]
        inflight == Cardinality(BatchInFlight(started))
    IN  [b EXCEPT !.pc = "awaiting", !.i = i, !.call = started,
                  !.peak = IF inflight > @ THEN inflight ELSE @]

\* the entry of cleanBatchData's map for a response that is not usable
BatchNull == [st |-> "null", name |-> "", domain |-> NULL, country |-> NULL,
              employee_size |-> NULL, raw_json |-> 0]

\* cleanBatchData's map callback
BatchMapped(raw, responses) ==
    [k \in DOMAIN responses |->
        LET response == responses[k]
        IN  IF \/ ~response.success
               \/ response.data.data = "undefined"
               \/ ~IsValidCleanedData(response.data)
            THEN BatchNull
            ELSE [st |-> "ok", name |-> response.data.name,
                  domain |-> response.data.domain,
                  country |-> response.data.country,
                  employee_size |-> response.data.employee_size,
                  raw_json |-> raw[k]]]

RECURSIVE SumOf(_, _)
\* `responses.reduce((acc, r) => acc + (r[field] ?? 0), 0)`
SumOf(responses, field) ==
    IF responses = <<>> THEN 0
    ELSE responses[1][field] + SumOf(Tail(responses), field)

\* `responses.find((r) => r.error)?.error`
FirstError(responses) ==
    LET withError == SelectSeq(responses, LAMBDA r : r.error # MISSING)
    IN  IF withError = <<>> THEN MISSING ELSE withError[1].error

\* what cleanBatchData returns for the provider's responses
CleanBatchDataReturn(raw, responses) ==
    [success |-> \A k \in DOMAIN responses : responses[k].success,
     data |-> SelectSeq(BatchMapped(raw, responses), LAMBDA item : item # BatchNull),
     tokensUsed |-> SumOf(responses, "tokensUsed"),
     cost |-> SumOf(responses, "cost"),
     error |-> FirstError(responses)]

\* cleanBatchData is called with 0..MaxRequests rows (row k is raw[k])
BatchInit ==
    /\ companies = {}
    /\ nextId = 1
    /\ CallersIdle
    /\ csvData = <<>>
    /\ enableEnrichment = FALSE
    /\ aiModel = "gpt-4o-mini"
    /\ phase = "idle"
    /\ thrown = NoThrow
    /\ result = NoResult
    /\ validatedRows = <<>>
    /\ cleanTask = <<>>
    /\ cleanedCompanies = <<>>
    /\ upsertIdx = 0
    /\ savedCompanies = <<>>
    /\ enrichTask = <<>>
    /\ aiMemo = <<>>
    /\ runs = 0
    /\ hist = NoRunHist
    /\ cleanCall = NoCleanCall
    /\ enrichCall = NoEnrichCall
    /\ now = 1
    /\ updateCall = NoUpdateCall
    /\ AuxIdle
    /\ batch \in {[NoBatch EXCEPT !.pc = "called", !.raw = [k \in 1..n |-> k]] :
                    n \in 0..MaxRequests}

BatchUnchanged ==
    UNCHANGED <<storeVars, callVars, csvData, enableEnrichment, aiModel,
                cleanCall, enrichCall, now, updateCall, auxVars, phase, thrown, result, validatedRows,
                cleanTask, cleanedCompanies, upsertIdx, savedCompanies,
                enrichTask, aiMemo, runs, hist>>

\* cleanBatchData builds the requests and calls batchCleanData, which
\* starts the calls of the first batch and waits for them
CleanBatchDataEnter ==
    /\ batch.pc = "called"
    /\ batch' = StartBatch([batch EXCEPT
                               !.call = [k \in DOMAIN batch.raw |->
                                            [st |-> "new", response |-> NoResponse]]],
                           0)
    /\ BatchUnchanged

\* the cleanData call of request k settles
ProviderSettle(k) ==
    /\ batch.pc = "awaiting"
    /\ k \in BatchInFlight(batch.call)
    /\ \E completion \in Completions :
          batch' = [batch EXCEPT
                       !.call[k] = [st |-> "done",
                                    response |-> ProviderCleanData(aiModel, completion)]]
    /\ BatchUnchanged

\* Promise.all of the batch resolves: its responses are pushed in the
\* order of its requests; then either the delay starts, or batchCleanData
\* returns and cleanBatchData builds its return value
BatchJoin ==
    /\ batch.pc = "awaiting"
    /\ BatchInFlight(batch.call) = {}
    /\ LET n == Len(batch.raw)
           got == [k \in 1..Cardinality(BatchSlice(batch.i, n)) |->
                      batch.call[batch.i + k].response]
           results == batch.results \o got
       IN  batch' = IF batch.i + BatchSize < n
                    THEN [batch EXCEPT !.pc = "delay", !.results = results]
                    ELSE [batch EXCEPT !.pc = "returned", !.results = results,
                                       !.out = CleanBatchDataReturn(batch.raw, results)]
    /\ BatchUnchanged

\* the delay between two batches is over: `i += batchSize` and the next
\* batch starts
DelayElapsed ==
    /\ batch.pc = "delay"
    /\ batch' = StartBatch(batch, batch.i + BatchSize)
    /\ BatchUnchanged

BatchNext ==
    \/ CleanBatchDataEnter
    \/ \E k \in 1..MaxRequests : ProviderSettle(k)
    \/ BatchJoin
    \/ DelayElapsed

SpecBatch == BatchInit /\ [][BatchNext]_vars

\* ------------------------------------------------------------------------
\* Properties of cleanBatchData and batchCleanData (SpecBatch)
\* ------------------------------------------------------------------------
\* the record cleanBatchData's contract asks for at position k: the cleaned
\* record of row k, or null when the response for row k is not usable
ExpectedEntry(k) ==
    LET response == batch.call[k].response
    IN  IF response.success /\ IsValidCleanedData(response.data)
        THEN [st |-> "ok", name |-> response.data.name,
              domain |-> response.data.domain, country |-> response.data.country,
              employee_size |-> response.data.employee_size,
              raw_json |-> batch.raw[k]]
        ELSE BatchNull

\* C23: cleanBatchData returns one entry per input row in matching order:
\* the i-th output is the cleaned record of the i-th input row, or null
\* when that row's cleaning failed.
C23_BatchOutputMatchesInput ==
    batch.pc = "returned" =>
        /\ Len(batch.out.data) = Len(batch.raw)
        /\ \A k \in DOMAIN batch.out.data : batch.out.data[k] = ExpectedEntry(k)

\* C24: batchCleanData runs its requests in groups of bounded size: at
\* most 5 AI calls are in flight at any time, a failed call never
\* prevents the other calls from completing, and the responses come back
\* one per request in request order.
C24_BoundedBatchesInOrder ==
    /\ Cardinality(BatchInFlight(batch.call)) <= 5
    /\ batch.peak <= 5
    /\ batch.pc \in {"delay", "returned"} =>
          /\ Len(batch.results) = IF batch.pc = "returned" THEN Len(batch.raw)
                                  ELSE batch.i + 5
          /\ \A k \in DOMAIN batch.results :
                /\ batch.call[k].st = "done"
                /\ batch.results[k] = batch.call[k].response

\* six requests: five were in flight at once, the first call failed, the
\* sixth ran in the second batch and succeeded, and its response is the
\* sixth result
C24_Witness ==
    /\ batch.pc = "returned"
    /\ Len(batch.raw) = 6
    /\ batch.peak = 5
    /\ ~batch.results[1].success
    /\ batch.results[6].success
    /\ batch.results[6] # batch.results[2]

\* ------------------------------------------------------------------------
\* CompanyEnrichmentService.enrichCompany (src/lib/enrichment/service.ts)
\* ------------------------------------------------------------------------
MaxArticles == 4
MaxItems == 2

\* what newsService.search may do: throw (the request or the decoding of
\* its body fails), return a body without an articles list (an error body
\* of the news API), or return a body with a list of 0..MaxArticles articles
NewsOutcomes ==
    {[kind |-> "threw", articles |-> 0], [kind |-> "noArticles", articles |-> 0]}
    \cup {[kind |-> "articles", articles |-> n] : n \in 0..MaxArticles}

\* does enrichCompany's try block throw before the AI model is called:
\* search rejects, or `newsResults.map` is applied to undefined
NewsFails_OnlyWhenThrown(news) == news.kind = "threw"

NewsFails(news) == news.kind # "articles"

\* the value of one category of the AI model's JSON: something that is not
\* an array (or a missing key), an array of 0..MaxItems strings, or an array
\* holding something that is not a string
NotAnArray == [array |-> FALSE, items |-> <<>>]
CategoryValues ==
    {NotAnArray, [array |-> TRUE, items |-> <<NotAString>>]}
    \cup {[array |-> TRUE, items |-> [j \in 1..n |-> "s"]] : n \in 0..MaxItems}

NoSignalData == NoEnrichCall.answer.signals

\* what the AI model may answer to the signal-extraction request: it
\* throws, reports a failure, succeeds without data, with data that is not
\* an object, or with an object
AllSignalAnswers ==
    {[threw |-> t, success |-> s, data |-> "undefined", signals |-> NoSignalData] :
        t \in BOOLEAN, s \in BOOLEAN}
    \cup {[threw |-> FALSE, success |-> TRUE, data |-> "scalar", signals |-> NoSignalData]}
    \cup {[threw |-> FALSE, success |-> TRUE, data |-> "object", signals |-> sig] :
            sig \in [recent_news : CategoryValues, hiring_signals : CategoryValues,
                     funding_events : CategoryValues,
                     technology_adoption : CategoryValues,
                     trigger_events : CategoryValues,
                     growth_indicators : CategoryValues,
                     leadership_changes : CategoryValues]}

\* getEmptySignals
GetEmptySignals == NoEnrichCall.result.signals

\* `Array.isArray(x) ? (x as string[]) : []`
ArrayOrEmpty(x) == IF x.array THEN x.items ELSE <<>>

\* validateSignals
ValidateSignals(kind, signals) ==
    IF kind # "object" THEN GetEmptySignals
    ELSE [recent_news |-> ArrayOrEmpty(signals.recent_news),
          hiring_signals |-> ArrayOrEmpty(signals.hiring_signals),
          funding_events |-> ArrayOrEmpty(signals.funding_events),
          technology_adoption |-> ArrayOrEmpty(signals.technology_adoption),
          trigger_events |-> ArrayOrEmpty(signals.trigger_events),
          growth_indicators |-> ArrayOrEmpty(signals.growth_indicators),
          leadership_changes |-> ArrayOrEmpty(signals.leadership_changes)]

\* extractSignalsFromNews once the AI model has answered: the try block
\* and its catch
ExtractSignalsFromNews(answer) ==
    IF answer.threw \/ ~answer.success \/ answer.data = "undefined"
    THEN GetEmptySignals
    ELSE ValidateSignals(answer.data, answer.signals)

\* Math.min
MathMin(a, b) == IF a < b THEN a ELSE b

\* `Object.values(signals).flat()`
FlatValues(signals) ==
    signals.recent_news \o signals.hiring_signals \o signals.funding_events
    \o signals.technology_adoption \o signals.trigger_events
    \o signals.growth_indicators \o signals.leadership_changes

\* calculateConfidenceScore
CalculateConfidenceScore_NoClamp(articles, signals) ==
    MathMin(articles * 10, 30)
    + MathMin(Len(FlatValues(signals)) * 5, 40)
    + (IF Len(signals.funding_events) > 0 THEN 20 ELSE 0)
    + (IF Len(signals.leadership_changes) > 0 THEN 15 ELSE 0)
    + (IF Len(signals.hiring_signals) > 0 THEN 10 ELSE 0)

CalculateConfidenceScore(articles, signals) ==
    LET base == MathMin(articles * 10, 30)
        fromSignals == MathMin(Len(FlatValues(signals)) * 5, 40)
        funding == IF Len(signals.funding_events) > 0 THEN 20 ELSE 0
        leadership == IF Len(signals.leadership_changes) > 0 THEN 15 ELSE 0
        hiring == IF Len(signals.hiring_signals) > 0 THEN 10 ELSE 0
    IN  MathMin(base + fromSignals + funding + leadership + hiring, 100)

\* the EnrichmentResult returned (article j has url j)
EnrichmentResultOf(articles, answer) ==
    LET signals == ExtractSignalsFromNews(answer)
    IN  [signals |-> signals,
         sources |-> [j \in 1..articles |-> j],
         enriched_at |-> "<now>",
         confidence_score |-> CalculateConfidenceScore(articles, signals)]

EnrichInit ==
    /\ companies = {}
    /\ nextId = 1
    /\ CallersIdle
    /\ csvData = <<>>
    /\ enableEnrichment = TRUE
    /\ aiModel = "unlisted"
    /\ phase = "idle"
    /\ thrown = NoThrow
    /\ result = NoResult
    /\ validatedRows = <<>>
    /\ cleanTask = <<>>
    /\ cleanedCompanies = <<>>
    /\ upsertIdx = 0
    /\ savedCompanies = <<>>
    /\ enrichTask = <<>>
    /\ aiMemo = <<>>
    /\ runs = 0
    /\ hist = NoRunHist
    /\ cleanCall = NoCleanCall
    /\ batch = NoBatch
    /\ enrichCall = [NoEnrichCall EXCEPT !.pc = "called"]
    /\ now = 1
    /\ updateCall = NoUpdateCall
    /\ AuxIdle

EnrichUnchanged ==
    UNCHANGED <<storeVars, callVars, csvData, enableEnrichment, aiModel,
                cleanCall, batch, now, updateCall, auxVars, phase, thrown, result, validatedRows,
                cleanTask, cleanedCompanies, upsertIdx, savedCompanies,
                enrichTask, aiMemo, runs, hist>>

\* enrichCompany(company) calls searchCompanyNews and waits for
\* newsService.search
EnrichCompanyEnter ==
    /\ enrichCall.pc = "called"
    /\ enrichCall' = [enrichCall EXCEPT !.pc = "news"]
    /\ EnrichUnchanged

\* newsService.search settles: enrichCompany throws, or
\* extractSignalsFromNews builds its prompt and calls the AI model
NewsSearchSettle ==
    /\ enrichCall.pc = "news"
    /\ \E news \in NewsOutcomes :
          enrichCall' = [enrichCall EXCEPT
                            !.news = news,
                            !.pc = IF NewsFails(news) THEN "threw" ELSE "ai"]
    /\ EnrichUnchanged

\* the AI model answers (or throws): extractSignalsFromNews returns the
\* signals and enrichCompany returns its result
SignalAnswerSettle ==
    /\ enrichCall.pc = "ai"
    /\ \E answer \in AllSignalAnswers :
          enrichCall' = [enrichCall EXCEPT
                            !.answer = answer,
                            !.pc = "returned",
                            !.result = EnrichmentResultOf(enrichCall.news.articles,
                                                          answer)]
    /\ EnrichUnchanged

EnrichNext == EnrichCompanyEnter \/ NewsSearchSettle \/ SignalAnswerSettle

SpecEnrich == EnrichInit /\ [][EnrichNext]_vars

\* ------------------------------------------------------------------------
\* Properties of enrichCompany (SpecEnrich)
\* ------------------------------------------------------------------------
EnrichSettled == enrichCall.pc \in {"returned", "threw"}

SignalCategories ==
    {"recent_news", "hiring_signals", "funding_events", "technology_adoption",
     "trigger_events", "growth_indicators", "leadership_changes"}

AllEmpty(signals) == \A c \in SignalCategories : signals[c] = <<>>

C26_NewsFailureYieldsEmptyResult ==
    (EnrichSettled /\ enrichCall.news.kind # "articles") =>
        /\ enrichCall.pc = "returned"
        /\ AllEmpty(enrichCall.result.signals)

\* the AI model call failed, or some category of its answer is not an
\* array of strings
AnswerMalformed(answer) ==
    \/ answer.threw \/ ~answer.success \/ answer.data # "object"
    \/ \E c \in SignalCategories :
          \/ ~answer.signals[c].array
          \/ \E j \in DOMAIN answer.signals[c].items :
                answer.signals[c].items[j] = NotAString

\* C27: if the AI model call fails, or its response has any of the seven
\* signal categories that is not decodable as an array of strings,
\* enrichCompany returns the all-empty default CompanySignals.
C27_MalformedAnswerGivesEmptySignals ==
    (enrichCall.pc = "returned" /\ AnswerMalformed(enrichCall.answer)) =>
        AllEmpty(enrichCall.result.signals)

\* the number of signals of all seven categories
TotalSignals(signals) ==
    Len(signals.recent_news) + Len(signals.hiring_signals)
    + Len(signals.funding_events) + Len(signals.technology_adoption)
    + Len(signals.trigger_events) + Len(signals.growth_indicators)
    + Len(signals.leadership_changes)

\* the score the formula gives for an article count and a signal set
ScoreFormula(articles, signals) ==
    LET a == IF articles * 10 <= 30 THEN articles * 10 ELSE 30
        t == IF TotalSignals(signals) * 5 <= 40 THEN TotalSignals(signals) * 5 ELSE 40
        sum == a + t
               + (IF signals.funding_events # <<>> THEN 20 ELSE 0)
               + (IF signals.leadership_changes # <<>> THEN 15 ELSE 0)
               + (IF signals.hiring_signals # <<>> THEN 10 ELSE 0)
    IN  IF sum <= 100 THEN sum ELSE 100

\* C28: for every article count and every signal set, confidence_score
\* equals min(min(articles*10, 30) + min(totalSignals*5, 40) + 20 if any
\* funding_events + 15 if any leadership_changes + 10 if any
\* hiring_signals, 100); it is an integer in 0..100 determined only by the
\* article count and the signals (2 articles with one funding signal and
\* one hiring signal give 60).
C28_ConfidenceScoreFormula ==
    enrichCall.pc = "returned" =>
        LET signals == enrichCall.result.signals
            articles == enrichCall.news.articles
            score == enrichCall.result.confidence_score
        IN  /\ score = ScoreFormula(articles, signals)
            /\ score \in 0..100
            /\ (/\ articles = 2
                /\ TotalSignals(signals) = 2
                /\ Len(signals.funding_events) = 1
                /\ Len(signals.hiring_signals) = 1) => score = 60

\* two articles, one funding signal and one hiring signal score 60
C28_Witness ==
    /\ enrichCall.pc = "returned"
    /\ enrichCall.news.articles = 2
    /\ enrichCall.result.signals =
          [GetEmptySignals EXCEPT !.funding_events = <<"s">>,
                                  !.hiring_signals = <<"s">>]
    /\ enrichCall.result.confidence_score = 60

\* ------------------------------------------------------------------------
\* The store over time: upsertCompany and updateCompanyEnrichment called
\* directly, one upsertCompany call at a time, while the clock advances
\* (src/server/db/company/mutations.ts)
\* ------------------------------------------------------------------------
MaxTime == 4
MaxStoreCalls == 3

\* the store at the start: empty, or two companies saved at time 1, the
\* first of them enriched at time 2
TimedStores ==
    { {},
      {[id |-> 1, name |-> "A", domain |-> "d1", payload |-> 0,
        enrichment_data |-> ENRICHED, created_at |-> 1, updated_at |-> 2,
        enriched_at |-> 2],
       [id |-> 2, name |-> "B", domain |-> NULL, payload |-> 0,
        enrichment_data |-> NULL, created_at |-> 1, updated_at |-> 1,
        enriched_at |-> NoTime]} }

TimedInit ==
    /\ companies \in TimedStores
    /\ nextId = Cardinality(companies) + 1
    /\ CallersIdle
    /\ csvData = <<>>
    /\ enableEnrichment = FALSE
    /\ aiModel = "unlisted"
    /\ phase = "idle"
    /\ thrown = NoThrow
    /\ result = NoResult
    /\ validatedRows = <<>>
    /\ cleanTask = <<>>
    /\ cleanedCompanies = <<>>
    /\ upsertIdx = 0
    /\ savedCompanies = <<>>
    /\ enrichTask = <<>>
    /\ aiMemo = <<>>
    /\ runs = 0
    /\ hist = NoRunHist
    /\ cleanCall = NoCleanCall
    /\ batch = NoBatch
    /\ enrichCall = NoEnrichCall
    /\ now = 2
    /\ updateCall = NoUpdateCall
    /\ AuxIdle

\* time passes between two store operations
TimePasses ==
    /\ now < MaxTime
    /\ now' = now + 1
    /\ UNCHANGED <<storeVars, callVars, csvData, enableEnrichment, aiModel,
                   cleanCall, batch, enrichCall, updateCall, auxVars, phase, thrown,
                   result, validatedRows, cleanTask, cleanedCompanies,
                   upsertIdx, savedCompanies, enrichTask, aiMemo, runs, hist>>

\* a caller calls upsertCompany with a NewCompany record once the call
\* before has returned
TimedUpsertCall ==
    /\ calls + updateCall.n < MaxStoreCalls
    /\ InFlight = {}
    /\ \E n \in Names, d \in Domains :
          UpsertEnter(RunCaller, [name |-> n, domain |-> d, payload |-> calls + 1])
    /\ calls' = calls + 1
    /\ UNCHANGED pipeVars

\* updateCompanyEnrichment(companyId, enrichmentData): the update
\* statement runs (or the store rejects it) and the call returns the row
\* or throws
UpdateEnrichmentCall ==
    /\ calls + updateCall.n < MaxStoreCalls
    /\ \E id \in 1..nextId, storeOk \in BOOLEAN :
          /\ companies' = IF storeOk THEN UpdateCompanyEnrichment(companies, id)
                          ELSE companies
          /\ updateCall' = [n |-> updateCall.n + 1, id |-> id,
                            threw |-> ~storeOk \/ NotFound(companies', id),
                            msg |-> IF ~storeOk THEN "Database error"
                                    ELSE IF NotFound(companies', id)
                                         THEN "not found" ELSE ""]
    /\ UNCHANGED <<nextId, callVars, csvData, enableEnrichment, aiModel,
                   cleanCall, batch, enrichCall, now, auxVars, phase, thrown, result,
                   validatedRows, cleanTask, cleanedCompanies, upsertIdx,
                   savedCompanies, enrichTask, aiMemo, runs, hist>>

TimedNext ==
    \/ TimePasses
    \/ TimedUpsertCall
    \/ FindByDomain(RunCaller)
    \/ FindByName(RunCaller)
    \/ Write(RunCaller)
    \/ StoreThrows(RunCaller)
    \/ UpdateEnrichmentCall

SpecTimed == TimedInit /\ [][TimedNext]_vars

\* ------------------------------------------------------------------------
\* Properties of the store over time (SpecTimed)
\* ------------------------------------------------------------------------
\* the rows other than row id
OtherRows(store, id) == {r \in store : r.id # id}

\* the row with this id (there is one)
RowOf(store, id) == CHOOSE r \in store : r.id = id

\* this step is a direct updateCompanyEnrichment call
UpdateEnrichmentStep == updateCall'.n = updateCall.n + 1

\* C29: updateCompanyEnrichment called with an id that no Company has
\* throws a not-found error and leaves the store unchanged; called with
\* an existing id it sets enrichment_data, enriched_at and updated_at of
\* that Company only and changes no other row.
C29_EnrichmentUpdateTouchesOneRow ==
    [][UpdateEnrichmentStep =>
        LET id == updateCall'.id
        IN  IF \A r \in companies : r.id # id
            THEN /\ updateCall'.threw
                 /\ updateCall'.msg \in {"not found", "Database error"}
                 /\ companies' = companies
            ELSE IF updateCall'.threw
            THEN updateCall'.msg = "Database error" /\ companies' = companies
            ELSE LET old == RowOf(companies, id)
                     new == RowOf(companies', id)
                 IN  /\ Cardinality(companies') = Cardinality(companies)
                     /\ OtherRows(companies', id) = OtherRows(companies, id)
                     /\ new = [old EXCEPT !.enrichment_data = ENRICHED,
                                          !.enriched_at = now,
                                          !.updated_at = now]]_vars

\* a call on an id that no Company has threw not-found, after a call that
\* enriched one of two companies and left the other as it was
C29_Witness ==
    /\ updateCall.n = 2
    /\ updateCall.threw
    /\ updateCall.msg = "not found"
    /\ \A r \in companies : r.id # updateCall.id
    /\ \E r \in companies : r.id = 2 /\ r.enriched_at = MaxTime
    /\ \E r \in companies : r.id = 1 /\ r.enriched_at = 2 /\ r.updated_at = 2

\* this step is the write of an upsertCompany call that matched a Company
UpsertOverwriteStep ==
    /\ upc[RunCaller] = "write"
    /\ uexisting[RunCaller] # NoRow
    /\ ures'[RunCaller].returned

\* C30: when upsertCompany matches an existing Company it overwrites that
\* row in place: name, domain, country, employee_size, raw_json and
\* updated_at take the new values, while id, created_at, enrichment_data
\* and enriched_at are unchanged and no other row is modified.
C30_UpsertOverwritesInPlace ==
    [][UpsertOverwriteStep =>
        LET id == uexisting[RunCaller]
            rec == uarg[RunCaller]
            old == RowOf(companies, id)
            new == RowOf(companies', id)
        IN  /\ ures'[RunCaller].wasUpdated
            /\ Cardinality(companies') = Cardinality(companies)
            /\ OtherRows(companies', id) = OtherRows(companies, id)
            /\ new.name = rec.name
            /\ new.domain = rec.domain
            /\ new.payload = rec.payload
            /\ new.updated_at = now
            /\ new.id = old.id
            /\ new.created_at = old.created_at
            /\ new.enrichment_data = old.enrichment_data
            /\ new.enriched_at = old.enriched_at]_vars

\* an upsertCompany call overwrote the enriched Company 1 at time MaxTime
\* with another name: its creation time and its enrichment are those it
\* had, and Company 2 is as it was
C30_Witness ==
    /\ ures[RunCaller].wasUpdated
    /\ ures[RunCaller].company = 1
    /\ \E r \in companies :
          /\ r.id = 1
          /\ r.name = "B"
          /\ r.payload = 1
          /\ r.updated_at = MaxTime
          /\ r.created_at = 1
          /\ r.enrichment_data = ENRICHED
          /\ r.enriched_at = 2
    /\ \E r \in companies : r.id = 2 /\ r.updated_at = 1

\* ------------------------------------------------------------------------
\* The listing endpoint: GET /api/companies (src/app/api/companies/route.ts)
\* over findWithFilters and countWithFilters
\* (src/server/db/company/queries.ts).  In this part a text column and a
\* text filter are sequences of characters.
\* ------------------------------------------------------------------------
MaxListRows == 3
MaxJobRows == 3                  \* Company rows in the store of an enrichment job
MaxDeleteLines == 2              \* lines of the CSV text of a run the store is emptied under
MaxJobLines == 3                 \* lines of the CSV text of a csv-processing job

\* every variable of the pipeline, of the callers of upsertCompany and of
\* the calls made on their own is at rest
Quiet ==
    /\ CallersIdle
    /\ csvData = <<>>
    /\ enableEnrichment = FALSE
    /\ aiModel = "unlisted"
    /\ phase = "idle"
    /\ thrown = NoThrow
    /\ result = NoResult
    /\ validatedRows = <<>>
    /\ cleanTask = <<>>
    /\ cleanedCompanies = <<>>
    /\ upsertIdx = 0
    /\ savedCompanies = <<>>
    /\ enrichTask = <<>>
    /\ aiMemo = <<>>
    /\ runs = 0
    /\ hist = NoRunHist
    /\ cleanCall = NoCleanCall
    /\ batch = NoBatch
    /\ enrichCall = NoEnrichCall
    /\ now = 1
    /\ updateCall = NoUpdateCall

\* a nullable text column
TextOf(t) == [null |-> FALSE, text |-> t]
NullText == [null |-> TRUE, text |-> <<>>]

\* an optional query parameter
Given(t) == [given |-> TRUE, text |-> t]
NotGiven == [given |-> FALSE, text |-> <<>>]

\* the companies a store may hold (payload: the country and employee_size
\* columns); companies 2 and 3 were created at the same time
ListRowPool ==
    {[id |-> 1, name |-> "A", domain |-> TextOf(<<"d", "1">>),
      payload |-> [country |-> TextOf(<<"U", "S">>), employee_size |-> "1-10"],
      enrichment_data |-> NULL, created_at |-> 1, updated_at |-> 1,
      enriched_at |-> NoTime],
     [id |-> 2, name |-> "B", domain |-> NullText,
      payload |-> [country |-> TextOf(<<"u", "s">>), employee_size |-> "11-50"],
      enrichment_data |-> NULL, created_at |-> 2, updated_at |-> 2,
      enriched_at |-> NoTime],
     [id |-> 3, name |-> "A", domain |-> TextOf(<<"d", "2">>),
      payload |-> [country |-> TextOf(<<"D", "E">>), employee_size |-> "1-10"],
      enrichment_data |-> NULL, created_at |-> 2, updated_at |-> 2,
      enriched_at |-> NoTime],
     [id |-> 4, name |-> "B", domain |-> TextOf(<<"e", "1">>),
      payload |-> [country |-> NullText, employee_size |-> "1-10"],
      enrichment_data |-> NULL, created_at |-> 3, updated_at |-> 3,
      enriched_at |-> NoTime]}

\* the query strings of a request
ListQueries ==
    [country : {NotGiven, Given(<<>>), Given(<<"u">>), Given(<<"_", "E">>)},
     employee_size : {MISSING, "1-10", "11-50", "many"},
     domain : {NotGiven, Given(<<"D">>)},
     limit : {MISSING, "", "abc", "0", "1", "2", "100", "101"},
     offset : {MISSING, "abc", "-1", "0", "1", "5"}]

\* Number(s), as z.coerce.number() applies it
CoerceNumber(raw) ==
    CASE raw = "" -> [nan |-> FALSE, value |-> 0]
      [] raw = "0" -> [nan |-> FALSE, value |-> 0]
      [] raw = "1" -> [nan |-> FALSE, value |-> 1]
      [] raw = "2" -> [nan |-> FALSE, value |-> 2]
      [] raw = "5" -> [nan |-> FALSE, value |-> 5]
      [] raw = "100" -> [nan |-> FALSE, value |-> 100]
      [] raw = "101" -> [nan |-> FALSE, value |-> 101]
      [] raw = "-1" -> [nan |-> FALSE, value |-> 0 - 1]
      [] OTHER -> [nan |-> TRUE, value |-> 0]

\* `limit: z.coerce.number().min(1).max(100).default(50)`
LimitOk(raw) ==
    raw = MISSING
    \/ LET n == CoerceNumber(raw) IN ~n.nan /\ n.value >= 1 /\ n.value <= 100

LimitOf(raw) == IF raw = MISSING THEN 50 ELSE CoerceNumber(raw).value

\* `offset: z.coerce.number().min(0).default(0)`
OffsetOk(raw) ==
    raw = MISSING \/ LET n == CoerceNumber(raw) IN ~n.nan /\ n.value >= 0

OffsetOf(raw) == IF raw = MISSING THEN 0 ELSE CoerceNumber(raw).value

\* `employee_size: z.enum(EMPLOYEE_SIZE_BUCKETS).optional()`
SizeOk(raw) == raw = MISSING \/ raw \in EMPLOYEE_SIZE_BUCKETS

\* CompanyFiltersSchema.parse: does it accept the query
FiltersOk(query) ==
    SizeOk(query.employee_size) /\ LimitOk(query.limit) /\ OffsetOk(query.offset)

\* CompanyFiltersSchema.parse: the filters of an accepted query
FiltersOf(query) ==
    [country |-> query.country, employee_size |-> query.employee_size,
     domain |-> query.domain, limit |-> LimitOf(query.limit),
     offset |-> OffsetOf(query.offset)]

\* lower case of one character, as ILIKE folds it
LowerChar(c) ==
    CASE c = "U" -> "u"
      [] c = "S" -> "s"
      [] c = "D" -> "d"
      [] c = "E" -> "e"
      [] OTHER -> c

LowerText(t) == [k \in DOMAIN t |-> LowerChar(t[k])]

RECURSIVE LikeMatch(_, _)
\* t LIKE p: % matches any run of characters, _ any one character
LikeMatch(p, t) ==
    IF p = <<>> THEN t = <<>>
    ELSE IF Head(p) = "%"
         THEN LikeMatch(Tail(p), t) \/ (t # <<>> /\ LikeMatch(p, Tail(t)))
         ELSE /\ t # <<>>
              /\ Head(p) = "_" \/ Head(p) = Head(t)
              /\ LikeMatch(Tail(p), Tail(t))

\* ilike(column, `%${filter}%`); a null column matches nothing
ILike(col, filter) ==
    /\ ~col.null
    /\ LikeMatch(<<"%">> \o LowerText(filter) \o <<"%">>, LowerText(col.text))

\* `if (filters.x)`: an absent or empty filter adds no condition
FilterSet(f) == f.given /\ f.text # <<>>

\* and(...conditions): does the row satisfy every condition pushed
MatchesFilters(r, filters) ==
    /\ FilterSet(filters.country) => ILike(r.payload.country, filters.country.text)
    /\ filters.employee_size # MISSING =>
          r.payload.employee_size = filters.employee_size
    /\ FilterSet(filters.domain) => ILike(r.domain, filters.domain.text)

MatchingRows(store, filters) == {r \in store : MatchesFilters(r, filters)}

\* the rows in an order that `order by created_at desc` allows
Orderings(rows) ==
    {o \in [1..Cardinality(rows) -> rows] :
        /\ \A i, j \in DOMAIN o : i # j => o[i] # o[j]
        /\ \A i, j \in DOMAIN o : i < j => o[i].created_at >= o[j].created_at}

\* `.limit(filters.limit).offset(filters.offset)`
Page_IgnoresOffset(ordered, limit, offset) ==
    SubSeq(ordered, 1, IF limit < Len(ordered) THEN limit ELSE Len(ordered))

Page(ordered, limit, offset) ==
    SubSeq(ordered, offset + 1,
           IF offset + limit < Len(ordered) THEN offset + limit ELSE Len(ordered))

\* the results findWithFilters may give
FindWithFiltersResults(store, filters) ==
    {Page(o, filters.limit, filters.offset) :
        o \in Orderings(MatchingRows(store, filters))}

\* countWithFilters
CountWithFilters(store, filters) == Cardinality(MatchingRows(store, filters))

\* NextResponse.json({ error: "Failed to fetch companies" }, { status: 500 })
ErrorResponse == [NoListCall.response EXCEPT !.status = 500]

\* NextResponse.json({companies, total, page, pageSize, totalPages})
ListResponse(rows, total, filters) ==
    [status |-> 200, companies |-> rows, total |-> total,
     page |-> (filters.offset \div filters.limit) + 1,
     pageSize |-> filters.limit,
     totalPages |-> (total + filters.limit - 1) \div filters.limit]

ListInit ==
    /\ companies \in {st \in SUBSET ListRowPool : Cardinality(st) <= MaxListRows}
    /\ nextId = 5
    /\ Quiet
    /\ listCall = NoListCall
    /\ csvJob = NoCsvJob
    /\ enrichJob = NoEnrichJob

ListUnchanged ==
    UNCHANGED <<storeVars, callVars, csvData, enableEnrichment, aiModel,
                cleanCall, batch, enrichCall, now, updateCall, csvJob,
                enrichJob, phase, thrown, result, validatedRows, cleanTask,
                cleanedCompanies, upsertIdx, savedCompanies, enrichTask,
                aiMemo, runs, hist>>

\* GET is called: the query is parsed; a rejected query is answered with
\* the error at once, an accepted one starts both queries
ListRequest ==
    /\ listCall.pc = "idle"
    /\ \E query \in ListQueries :
          listCall' = IF FiltersOk(query)
                      THEN [listCall EXCEPT !.pc = "querying", !.query = query,
                                            !.filters = FiltersOf(query)]
                      ELSE [listCall EXCEPT !.pc = "responded", !.query = query,
                                            !.response = ErrorResponse]
    /\ ListUnchanged

\* the select of findWithFilters settles: with a page of rows, or the
\* store rejects it
FindWithFiltersSettles ==
    /\ listCall.pc = "querying"
    /\ ~listCall.selectDone
    /\ \/ \E rows \in FindWithFiltersResults(companies, listCall.filters) :
             listCall' = [listCall EXCEPT !.selectDone = TRUE, !.companies = rows]
       \/ listCall' = [listCall EXCEPT !.selectDone = TRUE, !.failed = TRUE]
    /\ ListUnchanged

\* the select of countWithFilters settles
CountWithFiltersSettles ==
    /\ listCall.pc = "querying"
    /\ ~listCall.countDone
    /\ \/ listCall' = [listCall EXCEPT
                          !.countDone = TRUE,
                          !.total = CountWithFilters(companies, listCall.filters)]
       \/ listCall' = [listCall EXCEPT !.countDone = TRUE, !.failed = TRUE]
    /\ ListUnchanged

\* Promise.all settles and the response is sent
ListRespond ==
    /\ listCall.pc = "querying"
    /\ listCall.failed \/ (listCall.selectDone /\ listCall.countDone)
    /\ listCall' = [listCall EXCEPT
                       !.pc = "responded",
                       !.response = IF listCall.failed THEN ErrorResponse
                                    ELSE ListResponse(listCall.companies,
                                                      listCall.total,
                                                      listCall.filters)]
    /\ ListUnchanged

ListNext ==
    \/ ListRequest
    \/ FindWithFiltersSettles
    \/ CountWithFiltersSettles
    \/ ListRespond

SpecList == ListInit /\ [][ListNext]_vars

\* ------------------------------------------------------------------------
\* Properties of the listing endpoint (SpecList)
\* ------------------------------------------------------------------------
\* the companies of the store that match the query's three filters
QueryMatches ==
    {r \in companies :
        /\ FilterSet(listCall.query.country) =>
              ILike(r.payload.country, listCall.query.country.text)
        /\ listCall.query.employee_size # MISSING =>
              r.payload.employee_size = listCall.query.employee_size
        /\ FilterSet(listCall.query.domain) =>
              ILike(r.domain, listCall.query.domain.text)}

\* the limit and the offset the query asks for (the defaults when absent)
AskedLimit ==
    CASE listCall.query.limit = MISSING -> 50
      [] listCall.query.limit = "1" -> 1
      [] listCall.query.limit = "2" -> 2
      [] listCall.query.limit = "100" -> 100
      [] OTHER -> 0

AskedOffset ==
    CASE listCall.query.offset \in {MISSING, "0"} -> 0
      [] listCall.query.offset = "1" -> 1
      [] listCall.query.offset = "5" -> 5
      [] OTHER -> 0 - 1

\* C31: the listing endpoint returns {companies, total} where total is the
\* number of all Companies matching the country / employee_size / domain
\* filters regardless of limit and offset, companies holds at most limit
\* (1..100, default 50) of those matches starting at offset (>= 0, default
\* 0), and a limit outside 1..100 or a negative offset is rejected with an
\* error instead of being queried.
C31_ListingPagesAndCounts ==
    /\ (listCall.pc # "idle" /\ (AskedLimit = 0 \/ AskedOffset < 0)) =>
          /\ listCall.pc = "responded"
          /\ listCall.response.status = 500
          /\ ~listCall.selectDone /\ ~listCall.countDone
    /\ (listCall.pc = "responded" /\ listCall.response.status = 200) =>
          LET page == listCall.response.companies
              total == listCall.response.total
              rest == IF total > AskedOffset THEN total - AskedOffset ELSE 0
          IN  /\ AskedLimit \in 1..100 /\ AskedOffset >= 0
              /\ total = Cardinality(QueryMatches)
              /\ Len(page) = IF rest < AskedLimit THEN rest ELSE AskedLimit
              /\ \A k \in DOMAIN page : page[k] \in QueryMatches
              /\ \A j, k \in DOMAIN page :
                    /\ j # k => page[j] # page[k]
                    /\ j < k => page[j].created_at >= page[k].created_at
              /\ \A r \in QueryMatches :
                    (\A k \in DOMAIN page : page[k] # r) =>
                        \/ Len(page) = 0
                        \/ r.created_at >= page[1].created_at
                        \/ r.created_at <= page[Len(page)].created_at

\* three companies match, and the request for limit 1 at offset 1 is
\* answered with total 3 and the one company after the newest
C31_Witness ==
    /\ listCall.pc = "responded"
    /\ listCall.response.status = 200
    /\ listCall.query.limit = "1"
    /\ listCall.query.offset = "1"
    /\ listCall.response.total = 3
    /\ Len(listCall.response.companies) = 1
    /\ listCall.response.companies[1].created_at = 2

\* ------------------------------------------------------------------------
\* The CSV parser on its own (SpecParse): CSVParser.parse applied to texts
\* of one header line and one data line, three columns each, the columns of
\* a line separated by commas or by tabs
\* ------------------------------------------------------------------------
NameHeaders == {"name", "Name", "company_name", "company", "Company"}
DomainHeaders == {"domain", "website", "url", "URL"}
OtherHeaders == {"employee_size", "employees", "size", "headcount",
                 "country", "location", "notes"}
Delimiters == {Comma, Tab}

ParseTexts ==
    { <<h1, d, h2, d, h3, LF, "Acme", e, "acme.com", e, "x">> :
        h1 \in NameHeaders, h2 \in DomainHeaders, h3 \in OtherHeaders,
        d \in Delimiters, e \in Delimiters }

ParseInit ==
    /\ companies = {}
    /\ nextId = 1
    /\ CallersIdle
    /\ csvData \in ParseTexts
    /\ enableEnrichment = FALSE
    /\ aiModel = "unlisted"
    /\ PipeIdle

\* const parseResult = this.csvParser.parse(csvData)
ParseCall ==
    /\ runs = 0
    /\ LET lines == PreprocessLines(csvData)
       IN  hist' = [hist EXCEPT !.parsedRows = Parse(csvData).data,
                                !.parserWarnings = Parse(csvData).warnings,
                                !.headers = ParseHeaders(Head(lines))]
    /\ runs' = runs + 1
    /\ UNCHANGED <<csvData, enableEnrichment, aiModel, cleanCall, batch,
                   enrichCall, now, updateCall, auxVars, cleanedCompanies,
                   upsertIdx, savedCompanies, enrichTask, aiMemo, phase,
                   thrown, result, validatedRows, cleanTask>>
    /\ UNCHANGED <<storeVars, callVars>>

ParseNext == ParseCall

SpecParse == ParseInit /\ [][ParseNext]_vars

Parsed == runs = 1
HeaderLineOf(csv) == Head(PreprocessLines(csv))
DataLineOf(csv) == PreprocessLines(csv)[2]
HasTab(line) == \E i \in 1 .. Len(line) : line[i] = Tab

\* the line cut at every occurrence of the delimiter (no text of ParseTexts
\* has a quote in it)
CutOn(line, d) == Split(line, d)

\* C32: the parser detects the delimiter from the header line: when the
\* header line contains a tab, the header and the data row are split on
\* tabs, otherwise on commas; so the parsed row holds under "name" and
\* "domain" the pieces of the data line that stand in the columns whose
\* piece of the header line normalizes to name and to domain.
C32_DelimiterDetectedFromHeader ==
    Parsed =>
        LET d == IF HasTab(HeaderLineOf(csvData)) THEN Tab ELSE Comma
            cut == CutOn(HeaderLineOf(csvData), d)
            headers == [k \in DOMAIN cut |-> NormalizeHeader(cut[k])]
            row == CutOn(DataLineOf(csvData), d)
        IN  /\ hist.headers = headers
            /\ Len(hist.parsedRows) = 1
            /\ hist.parsedRows[1].name = FieldOf(row, headers, <<"name">>)
            /\ hist.parsedRows[1].domain = FieldOf(row, headers, <<"domain">>)

\* the header names the statement lists
ListedHeader(h) ==
    CASE h \in {<<"company_name">>, <<"company">>} -> <<"name">>
      [] h \in {<<"website">>, <<"url">>} -> <<"domain">>
      [] h \in {<<"employees">>, <<"size">>, <<"headcount">>} -> <<"employee_size">>
      [] h = <<"location">> -> <<"country">>
      [] OTHER -> h

\* C33: header normalization, case-insensitive and after trimming, maps
\* company_name and company to name, website and url to domain, employees,
\* size and headcount to employee_size, location to country, and passes
\* every other header through.
C33_HeaderSynonymsMapped ==
    Parsed =>
        LET raw == ParseCSVLine(HeaderLineOf(csvData))
        IN  /\ Len(hist.headers) = Len(raw)
            /\ \A k \in DOMAIN raw :
                  hist.headers[k] =
                      ListedHeader(Trim([j \in DOMAIN raw[k] |->
                                            LowerCase(raw[k][j])]))

\* ------------------------------------------------------------------------
\* upsertCompany's lookups (SpecStore)
\* ------------------------------------------------------------------------
\* caller c's write: the step in which its upsertCompany call returns
Returns(c) == upc[c] = "write" /\ upc'[c] = "idle" /\ ures'[c].returned

NoRowWithDomain(d) == ~\E r \in companies : r.domain = d

\* C34: upsertCompany looks a record up by name only when the record has no
\* domain: a call that overlaps no other, for a record whose domain is not
\* null and is the domain of no Company, inserts a new Company, also when
\* a Company of the same name exists.
C34_DomainedRecordNeverMatchedByName ==
    [][\A c \in Callers :
          (/\ Returns(c)
           /\ ~overlapped
           /\ uarg[c].domain # NULL
           /\ NoRowWithDomain(uarg[c].domain))
          => /\ ~ures'[c].wasUpdated
             /\ Cardinality(companies') = Cardinality(companies) + 1]_vars

\* ------------------------------------------------------------------------
\* The csv-processing worker (src/unnamed/part_004), one attempt at one job
\* (SpecWorker).  The worker builds its UploadService with enrichment
\* disabled and queues the enrichment itself.
\* ------------------------------------------------------------------------
\* result.companies: UploadResult declares the field (upload/types.ts 14),
\* the object processCSV builds and returns (service.ts 39-49) has none
HasCompanies(res) == "companies" \in DOMAIN res

\* the enrichment jobs built from result.companies
EnrichmentJobs(comps) ==
    [k \in DOMAIN comps |-> [companyId |-> comps[k].id,
                             companyName |-> comps[k].name]]

WorkerInit ==
    /\ companies \in InitialStores
    /\ nextId = Cardinality(companies) + 1
    /\ CallersIdle
    /\ csvData \in CSVTexts(MaxJobLines)
    /\ enableEnrichment = FALSE
    /\ aiModel = "gpt-4o-mini"
    /\ phase = "idle"
    /\ thrown = NoThrow
    /\ result = NoResult
    /\ validatedRows = <<>>
    /\ cleanTask = <<>>
    /\ cleanedCompanies = <<>>
    /\ upsertIdx = 0
    /\ savedCompanies = <<>>
    /\ enrichTask = <<>>
    /\ aiMemo = <<>>
    /\ runs = 0
    /\ hist = NoRunHist
    /\ cleanCall = NoCleanCall
    /\ batch = NoBatch
    /\ enrichCall = NoEnrichCall
    /\ now = 1
    /\ updateCall = NoUpdateCall
    /\ listCall = NoListCall
    /\ enrichJob = NoEnrichJob
    /\ \E b \in BOOLEAN :
          csvJob = [NoCsvJob EXCEPT !.pc = "active", !.enableEnrichment = b]

\* lines 39-58 and the catch: what the worker does once processCSV has
\* returned or thrown
WorkerFinish ==
    /\ csvJob.pc = "active"
    /\ phase \in {"returned", "threw"}
    /\ IF phase = "threw"
       THEN /\ csvJob' = [csvJob EXCEPT !.pc = "failed",
                                        !.error = "processCSV threw"]
            /\ result' = result
       ELSE IF csvJob.enableEnrichment /\ result.inserted > 0
            THEN IF HasCompanies(result)
                 THEN /\ csvJob' = [csvJob EXCEPT
                            !.pc = "completed",
                            !.queued = EnrichmentJobs(result.companies)]
                      /\ result' = [result EXCEPT
                            !.enrichmentSkipped = Len(result.companies)]
                 ELSE /\ csvJob' = [csvJob EXCEPT
                            !.pc = "failed",
                            !.error = "TypeError: cannot read properties of undefined"]
                      /\ result' = result
            ELSE /\ csvJob' = [csvJob EXCEPT !.pc = "completed"]
                 /\ result' = result
    /\ UNCHANGED <<csvData, enableEnrichment, aiModel, cleanCall, batch,
                   enrichCall, now, updateCall, listCall, enrichJob, phase,
                   thrown, validatedRows, cleanTask, cleanedCompanies,
                   upsertIdx, savedCompanies, enrichTask, aiMemo, runs, hist>>
    /\ UNCHANGED <<storeVars, callVars>>

WorkerNext ==
    \/ ProcessCSV
    \/ \E i \in 1 .. MaxJobLines : CleanSettle(i)
    \/ AfterCleaning
    \/ FindByDomain(RunCaller)
    \/ FindByName(RunCaller)
    \/ Write(RunCaller)
    \/ StoreThrows(RunCaller)
    \/ UpsertLoop
    \/ WorkerFinish

SpecWorker == WorkerInit /\ [][WorkerNext]_vars

JobEnded == csvJob.pc \in {"completed", "failed"}

\* C35: a csv-processing job with enableEnrichment = true whose processCSV
\* run inserted at least one company enqueues exactly one enrichment job
\* per company processCSV saved, carrying that company's id and name, and
\* then completes successfully.
C35_OneEnrichmentJobPerSavedCompany ==
    (JobEnded /\ csvJob.enableEnrichment /\ phase = "returned"
              /\ result.inserted >= 1)
    => /\ csvJob.pc = "completed"
       /\ csvJob.queued = EnrichmentJobs(savedCompanies)

\* ------------------------------------------------------------------------
\* The counters of one processCSV run (SpecUpload)
\* ------------------------------------------------------------------------
\* C36: whenever processCSV returns, processed = inserted + updated +
\* errors.
C36_ProcessedIsSumOfOutcomes ==
    phase = "returned" =>
        result.processed = result.inserted + result.updated + result.errors

C36_Witness ==
    /\ phase = "returned"
    /\ result.processed = 2
    /\ result.errors = 1
    /\ result.updated = 1
    /\ hist.upsertThrew = {}

\* ------------------------------------------------------------------------
\* Completion order of the concurrent calls (SpecUpload)
\* ------------------------------------------------------------------------
\* the positions of seq at which Test holds, in increasing order
Where(seq, Test(_)) == SelectSeq([i \in DOMAIN seq |-> i], Test)

\* the UploadResult as a function of the CSV text, of what each cleaning
\* call, each store call and each enrichment call came to, and of nothing
\* else: every call is looked at by its position, never by when it settled
ResultByPosition ==
    LET front == FrontHalf(csvData)
        CleanFailed(i) == cleanTask[i].st # "ok"
        Threw(i) == hist.upserts[i] = "threw"
        Inserted(i) == hist.upserts[i] = "inserted"
        Updated(i) == hist.upserts[i] = "updated"
        Enriched(i) == enrichTask[i] = "ok"
        NotEnriched(i) == enrichTask[i] # "ok"
        cf == Where(cleanTask, CleanFailed)
        th == Where(hist.upserts, Threw)
        ef == Where(enrichTask, NotEnriched)
    IN  [processed |-> front.processed,
         inserted |-> Len(Where(hist.upserts, Inserted)),
         updated |-> Len(Where(hist.upserts, Updated)),
         errors |-> front.errors + Len(cf) + Len(th),
         errorDetails |->
             front.errorDetails
             \o [k \in DOMAIN cf |-> Detail(cf[k], "AI cleaning failed")]
             \o [k \in DOMAIN th |-> Detail(th[k], "Database error")]
             \o [k \in DOMAIN ef |-> EnrichmentFailed(enrichTask[ef[k]])],
         totalCost |-> 0,
         enriched |-> Len(Where(enrichTask, Enriched)),
         enrichmentErrors |-> Len(ef),
         enrichmentSkipped |-> IF enableEnrichment THEN 0
                               ELSE Len(savedCompanies)]

\* C37: for a fixed CSV text, a fixed initial store and fixed outcomes of
\* the calls, the UploadResult processCSV returns (every counter and the
\* order of errorDetails) is the same for every completion order of the
\* concurrent cleaning and enrichment calls: it is the value that the CSV
\* text and the outcomes, taken by position, determine.
C37_ResultIndependentOfCompletionOrder ==
    phase = "returned" => result = ResultByPosition

C37_Witness ==
    /\ phase = "returned"
    /\ hist.cleanedOutOfOrder
    /\ hist.enrichedOutOfOrder
    /\ enrichTask = <<"ok", "newsFailed">>
    /\ result.errorDetails # <<>>

\* ------------------------------------------------------------------------
\* Rows without a name (SpecUpload)
\* ------------------------------------------------------------------------
EmptyName(row) == row.name = UNDEF \/ Trim(row.name) = <<>>
WellFormedDomain(row) == row.domain # UNDEF /\ IsValidDomain(row.domain)

\* the validated rows that have a well-formed domain and an empty name
NamelessRows ==
    {i \in DOMAIN validatedRows :
        EmptyName(validatedRows[i]) /\ WellFormedDomain(validatedRows[i])}

CleaningCollected ==
    \/ phase \in {"upserting", "enriching", "returned"}
    \/ phase = "threw" /\ thrown.msg = "AI cleaning failed for all companies"

TimesIn(seq, x) == Cardinality({k \in DOMAIN seq : seq[k] = x})

\* C38: a row with a well-formed domain and an empty name passes
\* validation and is never persisted: the AI model is not called for it,
\* it is counted as exactly one error with a cleaning-failure diagnostic,
\* and no Company is created or updated from it.
C38_NamelessRowIsOneCleaningError ==
    /\ phase # "idle" =>
          \A k \in DOMAIN hist.parsedRows :
              (EmptyName(hist.parsedRows[k]) /\ WellFormedDomain(hist.parsedRows[k]))
              => \E i \in DOMAIN validatedRows :
                    validatedRows[i].ref = hist.parsedRows[k].ref
    /\ \A i \in NamelessRows :
          /\ hist.lastAnswer.i # i
          /\ i \in DOMAIN cleanTask => cleanTask[i].st = "null"
          /\ \A r \in companies : r.payload # validatedRows[i].ref
          /\ \A k \in DOMAIN cleanedCompanies :
                cleanedCompanies[k].payload # validatedRows[i].ref
          /\ CleaningCollected =>
                /\ TimesIn(result.errorDetails, Detail(i, "AI cleaning failed")) = 1
                /\ hist.errAfterCleaning =
                      hist.errAfterValidation
                      + Cardinality({j \in DOMAIN cleanTask : cleanTask[j].st # "ok"})

C38_Witness ==
    /\ phase = "returned"
    /\ NamelessRows # {}
    /\ result.inserted = 1
    /\ result.errors = 1

\* ------------------------------------------------------------------------
\* The enrichment worker (src/unnamed/part_001), one attempt at one job
\* (SpecEnrichWorker)
\* ------------------------------------------------------------------------
\* the Company rows a job may find: `name` is not unique (schema.ts), rows
\* 1 and 3 share theirs
JobRow(i) ==
    [id |-> i, name |-> IF i % 2 = 1 THEN "A" ELSE "B",
     domain |-> IF i = 1 THEN "d1" ELSE IF i = 2 THEN "d2" ELSE NULL,
     payload |-> i, enrichment_data |-> NULL, created_at |-> 1,
     updated_at |-> 1, enriched_at |-> NoTime]

JobStores == SUBSET {JobRow(i) : i \in 1 .. MaxJobRows}

\* job.data as the csv-processing worker builds it: the id and the name of
\* one saved Company (which may have been deleted since)
EnrichmentJobData ==
    {[companyId |-> JobRow(i).id, companyName |-> JobRow(i).name] :
        i \in 1 .. MaxJobRows}

EnrichWorkerInit ==
    /\ companies \in JobStores
    /\ nextId = MaxJobRows + 1
    /\ Quiet
    /\ listCall = NoListCall
    /\ csvJob = NoCsvJob
    /\ \E data \in EnrichmentJobData :
          enrichJob = [NoEnrichJob EXCEPT !.pc = "find",
                                          !.companyId = data.companyId,
                                          !.companyName = data.companyName]

EnrichWorkerUnchanged ==
    UNCHANGED <<nextId, callVars, csvData, enableEnrichment, aiModel,
                cleanCall, batch, enrichCall, now, updateCall, listCall,
                csvJob, phase, thrown, result, validatedRows, cleanTask,
                cleanedCompanies, upsertIdx, savedCompanies, enrichTask,
                aiMemo, runs, hist>>

\* const company = await findByName(companyName); if (!company) throw
JobFindCompany ==
    /\ enrichJob.pc = "find"
    /\ \E e \in FindByNameResults(companies, enrichJob.companyName) :
          enrichJob' = IF e = NoRow
                       THEN [enrichJob EXCEPT !.pc = "failed",
                                              !.error = "Company not found"]
                       ELSE [enrichJob EXCEPT !.pc = "enrich", !.company = e]
    /\ companies' = companies
    /\ EnrichWorkerUnchanged

\* await enrichmentService.enrichCompany(company): returns a result, or
\* throws (when the News Search call fails)
JobEnrichCompany ==
    /\ enrichJob.pc = "enrich"
    /\ \E threw \in BOOLEAN :
          enrichJob' = IF threw
                       THEN [enrichJob EXCEPT !.pc = "failed",
                                              !.error = "enrichCompany threw"]
                       ELSE [enrichJob EXCEPT !.pc = "save"]
    /\ companies' = companies
    /\ EnrichWorkerUnchanged

\* await updateCompanyEnrichment(companyId, enrichmentResult); return
JobSaveResult ==
    /\ enrichJob.pc = "save"
    /\ \E storeOk \in BOOLEAN :
          /\ companies' = IF storeOk
                          THEN UpdateCompanyEnrichment(companies,
                                                       enrichJob.companyId)
                          ELSE companies
          /\ enrichJob' =
                IF ~storeOk
                THEN [enrichJob EXCEPT !.pc = "failed", !.error = "Database error"]
                ELSE IF NotFound(companies, enrichJob.companyId)
                     THEN [enrichJob EXCEPT !.pc = "failed", !.error = "not found"]
                     ELSE [enrichJob EXCEPT !.pc = "completed"]
    /\ EnrichWorkerUnchanged

EnrichWorkerNext == JobFindCompany \/ JobEnrichCompany \/ JobSaveResult

SpecEnrichWorker == EnrichWorkerInit /\ [][EnrichWorkerNext]_vars

\* C39: the enrichment worker enriches the company its job names: the
\* Company passed to enrichCompany is the one whose id is the job's
\* companyId, and the result is stored on that same Company, also when
\* several Companies share the companyName.
C39_WorkerEnrichesTheJobsCompany ==
    /\ enrichJob.pc \in {"enrich", "save", "completed"} =>
          enrichJob.company = enrichJob.companyId
    /\ enrichJob.pc = "completed" =>
          \A r \in companies :
              r.enrichment_data = ENRICHED <=> r.id = enrichJob.company

\* ------------------------------------------------------------------------
\* One processCSV run while deleteAllCompanies may be called (SpecDelete)
\* ------------------------------------------------------------------------
DeleteInit ==
    /\ companies \in InitialStores
    /\ nextId = Cardinality(companies) + 1
    /\ CallersIdle
    /\ csvData \in CSVTexts(MaxDeleteLines)
    /\ enableEnrichment \in BOOLEAN
    /\ aiModel = "unlisted"
    /\ PipeIdle

\* deleteAllCompanies(): delete from company, at any moment of the run
DeleteAllCompanies ==
    /\ companies # {}
    /\ companies' = {}
    /\ UNCHANGED <<nextId, callVars, pipeVars>>

DeleteNext ==
    \/ ProcessCSV
    \/ \E i \in 1 .. MaxDeleteLines : CleanSettle(i)
    \/ AfterCleaning
    \/ FindByDomain(RunCaller)
    \/ FindByName(RunCaller)
    \/ Write(RunCaller)
    \/ StoreThrows(RunCaller)
    \/ UpsertLoop
    \/ \E i \in 1 .. MaxDeleteLines : NewsSettle(i)
    \/ \E i \in 1 .. MaxDeleteLines : SignalsSettle(i)
    \/ \E i \in 1 .. MaxDeleteLines : UpdateSettle(i)
    \/ AfterEnrichment
    \/ DeleteAllCompanies

SpecDelete == DeleteInit /\ [][DeleteNext]_vars

\* C40: every company counted as inserted or updated is handed to the
\* enrichment phase: when processCSV returns, inserted + updated equals
\* enriched + enrichmentErrors if enrichment is enabled and
\* enrichmentSkipped if it is disabled, also when deleteAllCompanies runs
\* between an upsert's lookup and its write.
C40_EverySavedCompanyReachesEnrichment ==
    phase = "returned" =>
        result.inserted + result.updated =
            IF enableEnrichment
            THEN result.enriched + result.enrichmentErrors
            ELSE result.enrichmentSkipped

====
